---- MODULE Spec2Model ----
(***************************************************************************)
(* ACME client (acme/client.py): the signed-request pipeline of            *)
(* ClientNetwork (nonce pool, JWS wrapping, bad-nonce retry, response      *)
(* validation) and the POSTs the v1 / v2 engines issue through it.         *)
(***************************************************************************)
EXTENDS Integers, Sequences, FiniteSets, TLC

VARIABLES
    engine,     \* ClientBase.acme_version of the engine that owns the transport
    nonces,     \* ClientNetwork._nonces: set of decoded, unused nonces
    account,    \* ClientNetwork.account: None or a RegistrationResource
    pc,         \* position inside ClientNetwork.post / _post_once
    call,       \* arguments of the call in progress (or of the last call)
    attempt,    \* which _post_once of post() is running (1, or 2 for the retry)
    jws,        \* protected header of the JWS built by _wrap_in_jws
    reqs,       \* HTTP requests sent since the current call started
    resps,      \* the responses to them, in the same order
    attempts,   \* how each finished _post_once of the current call ended
    posted,     \* nonces carried by every signed POST of this ClientNetwork
    outcome,    \* what the last finished call returned or raised
    poolBefore, \* nonce pool as it was when the current call started
    acctBefore, \* ClientNetwork.account as it was when the current call started
    registered, \* a ClientV2.new_account of this session has returned
    srvNonce,   \* server side: number of Replay-Nonce values issued so far
    ncalls      \* number of calls started (bounds the exploration)

netVars == <<engine, nonces, account, pc, call, attempt, jws, reqs, resps, attempts,
             posted, outcome, poolBefore, acctBefore, registered, srvNonce, ncalls>>

\* Client.poll_and_request_issuance (v1), one call of it
VARIABLES
    authzrs,       \* the authzrs argument: a list of AuthorizationResource
    mintime,       \* the mintime argument (seconds)
    max_attempts,  \* the max_attempts argument
    waiting,       \* the heap of (when, index, authzr) entries
    updated,       \* dict: input authzr -> latest AuthorizationResource
    poll_attempts, \* the attempts defaultdict: input authzr -> polls returned
    exhausted,     \* set of input authzrs that ran out of attempts
    now,           \* datetime.datetime.now(), in whole seconds
    ppc,           \* position inside poll_and_request_issuance
    presult,       \* how the call ended
    issued,        \* number of request_issuance calls made
    npolls,        \* input index -> GETs sent for that heap entry
    sched,         \* input index -> Retry-After that scheduled its next poll
    lastPoll,      \* the most recent poll: who, when sent, when due
    sawLocation    \* input authzr -> some poll response carried Location

pollVars == <<authzrs, mintime, max_attempts, waiting, updated, poll_attempts,
              exhausted, now, ppc, presult, issued, npolls, sched, lastPoll,
              sawLocation>>

\* Client.fetch_chain (v1), one call of it
VARIABLES
    cert_chain_uri, \* certr.cert_chain_uri: where the chain starts, or None
    max_length,     \* the max_length argument
    up,             \* server side: the "up" link served with each certificate
    chain,          \* the chain list: certificates fetched so far
    chain_uri,      \* the local uri: next certificate to fetch, or None
    cpc,            \* position inside fetch_chain
    cresult,        \* how the call ended
    cgets           \* number of GETs sent by the call

chainVars == <<cert_chain_uri, max_length, up, chain, chain_uri, cpc, cresult, cgets>>

\* ClientV2.poll_authorizations / ClientV2.finalize_order, one call
VARIABLES
    v2call,      \* the ClientV2 method called
    opc,         \* position inside it
    orderr,      \* the orderr argument (messages.OrderResource)
    deadline,    \* the deadline that poll_authorizations / finalize_order run with
    deadline_arg, \* the deadline argument of the method called, possibly None
    clock,       \* datetime.datetime.now(), in whole seconds
    url_i,       \* poll_authorizations: position of the for loop in the URLs
    responses,   \* poll_authorizations: the responses list
    oresult,     \* how the call ended, with what it returned or carried
    authz_gets,  \* URL position -> GETs sent for that authorization
    posts,       \* instants of the finalize POSTs
    order_gets,  \* instants at which the GETs of the order URL were sent
    order_seen,  \* bodies of the polled orders, in order
    cert_resps   \* responses to the GETs of the certificate URL

orderVars == <<v2call, opc, orderr, deadline, deadline_arg, clock, url_i, responses, oresult,
               authz_gets, posts, order_gets, order_seen, cert_resps>>

\* BackwardsCompatibleClientV2 / a Client built directly, and one call on it
VARIABLES
    facade,        \* the object built: the facade with its engine, or a bare Client
    fcall,         \* the method called
    fpc,           \* position inside it
    events,        \* engine calls, POSTs and callback invocations of the call, in order
    dispatched,    \* class of the engine that served each call so far
    fresult,       \* how the call ended
    iresponse,     \* request_issuance: the response to the new-cert POST
    certr,         \* request_issuance: the CertificateResource returned
    fnow,          \* datetime.datetime.now(), in whole seconds
    fdeadline,     \* finalize_order: the deadline argument
    tries,         \* finalize_order on v1: the fetch_chain attempts made
    fauthzrs,      \* the authorizations handed to the call
    fullchain_pem, \* finalize_order on v1: the PEM blocks of the result
    tos_cb,        \* new_account_and_tos: the check_tos_cb argument
    regr_tos       \* new_account_and_tos: the terms-of-service URL found

facadeVars == <<facade, fcall, fpc, events, dispatched, fresult, iresponse, certr, fnow,
                fdeadline, tries, fauthzrs, fullchain_pem, tos_cb, regr_tos>>

vars == <<netVars, pollVars, chainVars, orderVars, facadeVars>>

-----------------------------------------------------------------------------
(* Bounds *)

MaxCalls == 2

-----------------------------------------------------------------------------
(* Values *)

None == "None"

JSON_CONTENT_TYPE == "application/json"
JOSE_CONTENT_TYPE == "application/jose+json"
JSON_ERROR_CONTENT_TYPE == "application/problem+json"
DER_CONTENT_TYPE == "application/pkix-cert"

\* ClientNetwork.account: unset (None) or a RegistrationResource with its uri
NoAccount == [set |-> FALSE, uri |-> None]
Account(uri) == [set |-> TRUE, uri |-> uri]

\* directory entries and resource URLs used by the engines
DirectoryUrl == "directory"
NewNonceUrl == "newNonce"
NewAccountUrl == "newAccount"
NewOrderUrl == "newOrder"
FinalizeUrl == "finalize"
NewRegUrl == "new-reg"
NewAuthzUrl == "new-authz"
NewCertUrl == "new-cert"
RevokeUrl == "revoke-cert"
ChallUrl == "chall/1"
AcctUrl1 == "acct/1"
AcctUrl7 == "acct/7"
OrderUrl == "order/1"

\* HTTP status codes the code distinguishes: ok (< 400), 409, other failure
Statuses == {200, 400, 409}

ok(status) == status < 400

\* what response.json() and the codec make of a body
BodyKinds == {"nonjson", "json", "json_badNonce", "json_undeser"}

\* Replay-Nonce header as sent by the server
NonceHeaders == {"absent", "malformed", "fresh"}

(* Replay-Nonce header values.  A well-formed header is the base64url text *)
(* of the nonce bytes; the pool holds the bytes and _wrap_in_jws passes the *)
(* bytes on to the signer.                                                 *)
B64(n) == [kind |-> "b64", val |-> n]
Raw(n) == [kind |-> "raw", val |-> n]
NoHeader == [kind |-> "absent", val |-> 0]

\* jws.Header._fields['nonce'].decode: DeserializationError on text that is
\* not base64url, the bytes otherwise
decode(h) == IF h.kind = "b64" THEN [err |-> None, val |-> h.val]
             ELSE [err |-> "DeserializationError", val |-> 0]

\* the Replay-Nonce header a server puts on its k-th nonce-bearing response
NonceHeader(kind, k) ==
    CASE kind = "fresh"     -> B64(k)
      [] kind = "malformed" -> Raw(k)
      [] OTHER              -> NoHeader

\* A response as the code reads it.  status 0 stands for no response at all:
\* session.request raised (requests.exceptions.RequestException).
Response(st, nh, body, ct, loc) ==
    [status |-> st, nonce |-> nh, body |-> body, ct |-> ct, location |-> loc]

NoResponse == Response(0, NoHeader, "nonjson", None, None)

ContentTypes == {JSON_CONTENT_TYPE, JSON_ERROR_CONTENT_TYPE}
Locations == {None, AcctUrl7}

\* the responses a server may give to a POST or a GET; k is the number of the
\* nonce it would issue
Responses(k) ==
    { Response(st, NonceHeader(nk, k), b, ct, loc) :
        st \in Statuses, nk \in NonceHeaders, b \in BodyKinds,
        ct \in ContentTypes, loc \in Locations }
    \cup {NoResponse}

\* the responses to a HEAD: no body; only the headers matter to the caller
HeadResponses(k) ==
    { Response(st, NonceHeader(nk, k), "nonjson", None, None) :
        st \in {200, 400}, nk \in NonceHeaders }
    \cup {NoResponse}

Issued(resp) == IF resp.nonce = NoHeader THEN 0 ELSE 1

-----------------------------------------------------------------------------
(* Results of a call: a returned response or a raised error *)

Returned(resp) == [kind |-> "return", code |-> None, arg |-> None, resp |-> resp]
Raised(kind, code, arg, resp) == [kind |-> kind, code |-> code, arg |-> arg, resp |-> resp]
NoOutcome == [kind |-> None, code |-> None, arg |-> None, resp |-> NoResponse]

\* messages.Error.code of a deserialized problem document
ErrorCode(body) == IF body = "json_badNonce" THEN "badNonce" ELSE "malformed"

\* response.json(): the decoded object, or None when the body is not JSON
json(resp) == IF resp.body = "nonjson" THEN None ELSE resp.body

\* messages.Error.from_json(jobj): raises jose.DeserializationError on a JSON
\* value that is no problem document
from_json_fails(jobj) == jobj = "json_undeser"

\* mutant: the 409 test placed after the problem-document branch
check_response_409_late(response, content_type) ==
    LET jobj == json(response)
    IN  IF ~ok(response.status) /\ jobj # None /\ ~from_json_fails(jobj)
          THEN Raised("messages.Error", ErrorCode(jobj), jobj, response)
        ELSE IF response.status = 409
          THEN Raised("ConflictError", None, response.location, response)
        ELSE IF ~ok(response.status)
          THEN IF jobj # None
                 THEN Raised("ClientError", None, "DeserializationError", response)
                 ELSE Raised("ClientError", None, None, response)
        ELSE IF content_type = JSON_CONTENT_TYPE /\ jobj = None
          THEN Raised("ClientError", None, "Unexpected response Content-Type", NoResponse)
        ELSE Returned(response)

\* mutant: a problem document is used only under application/problem+json
check_response_strict_ct(response, content_type) ==
    LET response_ct == response.ct
        jobj == json(response)
    IN  IF response.status = 409
          THEN Raised("ConflictError", None, response.location, response)
        ELSE IF ~ok(response.status)
          THEN IF jobj # None /\ response_ct = JSON_ERROR_CONTENT_TYPE
                 THEN IF from_json_fails(jobj)
                        THEN Raised("ClientError", None, "DeserializationError", response)
                        ELSE Raised("messages.Error", ErrorCode(jobj), jobj, response)
                 ELSE Raised("ClientError", None, None, response)
        ELSE IF content_type = JSON_CONTENT_TYPE /\ jobj = None
          THEN Raised("ClientError", None, "Unexpected response Content-Type", NoResponse)
        ELSE Returned(response)

\* ClientNetwork._check_response
check_response(response, content_type) ==
    LET response_ct == response.ct
        jobj == json(response)
    IN  IF response.status = 409
          THEN Raised("ConflictError", None, response.location, response)
        ELSE IF ~ok(response.status)
          THEN IF jobj # None
                 THEN IF from_json_fails(jobj)
                        THEN Raised("ClientError", None, "DeserializationError", response)
                        ELSE Raised("messages.Error", ErrorCode(jobj), jobj, response)
                 ELSE Raised("ClientError", None, None, response)
        ELSE IF content_type = JSON_CONTENT_TYPE /\ jobj = None
          THEN Raised("ClientError", None, "Unexpected response Content-Type", NoResponse)
        ELSE Returned(response)

\* ClientNetwork._send_request: a transport failure surfaces as an exception
\* (ValueError, or the RequestException re-raised)
send_failed(resp) == resp.status = 0

\* mutant: a response without Replay-Nonce is let through
add_nonce_lenient(pool, response) ==
    IF response.nonce # NoHeader
      THEN LET d == decode(response.nonce)
           IN  IF d.err # None
                 THEN [err |-> "BadNonce", pool |-> pool]
                 ELSE [err |-> None, pool |-> pool \cup {d.val}]
      ELSE [err |-> None, pool |-> pool]

\* mutant: an error response is validated before its nonce is looked at
add_nonce_after_validation(pool, response) ==
    IF ~ok(response.status)
      THEN [err |-> None, pool |-> pool]
    ELSE IF response.nonce # NoHeader
      THEN LET d == decode(response.nonce)
           IN  IF d.err # None
                 THEN [err |-> "BadNonce", pool |-> pool]
                 ELSE [err |-> None, pool |-> pool \cup {d.val}]
      ELSE [err |-> "MissingNonce", pool |-> pool]

\* ClientNetwork._add_nonce: the pool afterwards, or the error raised
add_nonce(pool, response) ==
    IF response.nonce # NoHeader
      THEN LET d == decode(response.nonce)
           IN  IF d.err # None
                 THEN [err |-> "BadNonce", pool |-> pool]
                 ELSE [err |-> None, pool |-> pool \cup {d.val}]
      ELSE [err |-> "MissingNonce", pool |-> pool]

\* mutant: the nonce handed out stays in the pool
pop_keeps(pool, n) == pool

\* set.pop() in ClientNetwork._get_nonce: the pool without the nonce handed out
pop(pool, n) == pool \ {n}

\* the URL ClientNetwork._get_nonce sends its HEAD to
nonce_url(url, acme_version) == url

\* ClientNetwork._wrap_in_jws: the protected header of the signed request;
\* self.account["uri"] on an unset account is a TypeError
wrap_in_jws(acct, nonce, url, acme_version) ==
    IF acme_version = 2
      THEN IF ~acct.set
             THEN [err |-> "TypeError", nonce |-> 0, url |-> None, kid |-> None]
             ELSE [err |-> None, nonce |-> nonce, url |-> url, kid |-> acct.uri]
      ELSE [err |-> None, nonce |-> nonce, url |-> None, kid |-> None]

\* no JWS: an unsigned request (HEAD, GET), or nothing signed yet
NoJws == [err |-> None, nonce |-> 0, url |-> None, kid |-> None]

\* mutant: no retry at all
retries_never(att, o) == FALSE

\* mutant: the first attempt is retried on any problem document
retries_any_problem(att, o) == att = 1 /\ o.kind = "messages.Error"

\* ClientNetwork.post: a first _post_once that raised messages.Error with
\* code badNonce is followed by a second _post_once; nothing else is
retries(att, o) == att = 1 /\ o.kind = "messages.Error" /\ o.code = "badNonce"

\* mutant: get() stores the Replay-Nonce of its response
get_nonces_adds(pool, response) ==
    IF response.nonce.kind = "b64" THEN pool \cup {decode(response.nonce).val} ELSE pool

\* ClientNetwork.get: what a GET does to the nonce pool
get_nonces(pool, response) == pool

-----------------------------------------------------------------------------
(* The signed POSTs the engines issue: net.post(url, obj, ...) as written  *)
(* at each call site.  ver is the acme_version the call passes, or the     *)
(* default of _post_once when it passes none.                              *)

DefaultAcmeVersion == 1

PostArgs(op, url, ver, ct) == [op |-> op, url |-> url, ver |-> ver, ct |-> ct]

\* ClientV2.new_account
new_account == PostArgs("new_account", NewAccountUrl, 2, JOSE_CONTENT_TYPE)
\* ClientV2.new_order
new_order == PostArgs("new_order", NewOrderUrl, DefaultAcmeVersion, JOSE_CONTENT_TYPE)
\* ClientV2.finalize_order
finalize_order == PostArgs("finalize_order", FinalizeUrl, DefaultAcmeVersion, JOSE_CONTENT_TYPE)
\* ClientBase.answer_challenge
answer_challenge(v) == PostArgs("answer_challenge", ChallUrl, v, JOSE_CONTENT_TYPE)
\* ClientBase.update_registration (through _send_recv_regr), regr.uri = acct/1
update_registration(v) == PostArgs("update_registration", AcctUrl1, v, JOSE_CONTENT_TYPE)
\* ClientBase.revoke
revoke(v) == PostArgs("revoke", RevokeUrl, v, None)
\* Client.register
register == PostArgs("register", NewRegUrl, 1, JOSE_CONTENT_TYPE)
\* Client.request_challenges
request_challenges == PostArgs("request_challenges", NewAuthzUrl, 1, JOSE_CONTENT_TYPE)
\* Client.request_issuance
request_issuance == PostArgs("request_issuance", NewCertUrl, 1, DER_CONTENT_TYPE)

\* the POSTs of the engine for protocol version v
EnginePosts(v) ==
    IF v = 2
      THEN {new_account, new_order, finalize_order, answer_challenge(v),
            update_registration(v), revoke(v)}
      ELSE {register, request_challenges, request_issuance, answer_challenge(v),
            update_registration(v), revoke(v)}

\* ClientBase._regr_from_response: the uri of the RegistrationResource
regr_uri(response, uri) ==
    IF response.location # None THEN response.location ELSE uri

\* Registration.from_json(response.json()) succeeds
regr_parses(response) == json(response) \notin {None, "json_undeser"}

\* self.net.account after the engine method that issued the POST went on:
\* new_account and update_registration bind the resource they decoded
bind(c, o, acct) ==
    IF o.kind = "return" /\ regr_parses(o.resp)
      THEN CASE c.op = "new_account"         -> Account(regr_uri(o.resp, None))
             [] c.op = "update_registration" -> Account(regr_uri(o.resp, c.url))
             [] OTHER                        -> acct
      ELSE acct

-----------------------------------------------------------------------------
(* State machine *)

Request(method, url, j) == [method |-> method, url |-> url, jws |-> j]

NoCall == [kind |-> None, op |-> None, url |-> None, ver |-> 0, ct |-> None]

\* no poll made yet
NoRetryAfter == [kind |-> "absent", val |-> 0]
NoPoll == [index |-> 0, at |-> 0, due |-> 0, uriBefore |-> None,
           location |-> None, returned |-> FALSE, ra |-> NoRetryAfter, since |-> 0]

\* no fetch_chain call made
ChainIdle ==
    /\ cert_chain_uri = None
    /\ max_length = 0
    /\ up = <<>>
    /\ chain = <<>>
    /\ chain_uri = None
    /\ cpc = "idle"
    /\ cresult = None
    /\ cgets = 0

NoOrderResource ==
    [uri |-> None,
     body |-> [authorizations |-> <<>>, finalize |-> None, error |-> None,
               certificate |-> None],
     authorizations |-> <<>>, fullchain_pem |-> None]

NoResult == [kind |-> None, orderr |-> NoOrderResource, failed |-> <<>>]

\* a deadline argument: None, or an instant
NoDeadline == [given |-> FALSE, at |-> 0]
GivenDeadline(d) == [given |-> TRUE, at |-> d]

\* no ClientV2 call made
OrderIdle ==
    /\ v2call = None
    /\ opc = "idle"
    /\ orderr = NoOrderResource
    /\ deadline = 0
    /\ deadline_arg = NoDeadline
    /\ clock = 0
    /\ url_i = 0
    /\ responses = <<>>
    /\ oresult = NoResult
    /\ authz_gets = <<>>
    /\ posts = <<>>
    /\ order_gets = <<>>
    /\ order_seen = <<>>
    /\ cert_resps = <<>>

\* no poll_and_request_issuance call made
PollIdle ==
    /\ authzrs = <<>>
    /\ mintime = 0
    /\ max_attempts = 0
    /\ waiting = {}
    /\ updated = <<>>
    /\ poll_attempts = <<>>
    /\ exhausted = {}
    /\ now = 0
    /\ ppc = "idle"
    /\ presult = None
    /\ issued = 0
    /\ npolls = <<>>
    /\ sched = <<>>
    /\ lastPoll = NoPoll
    /\ sawLocation = <<>>

\* a messages.Directory not fetched, an engine and a facade not built
NoDirectory == [newNonce |-> FALSE, terms_of_service |-> None]
NoEngine == [cls |-> None, key |-> None, net |-> None, directory |-> NoDirectory,
             acme_version |-> 0]
NoFacade == [wrapped |-> FALSE, acme_version |-> 0, client |-> NoEngine]

\* no CertificateResource, no response to the new-cert POST, no result
NoCertr == [uri |-> None, authzrs |-> <<>>, cert_chain_uri |-> None, body |-> None]
NoIssuance ==
    [status |-> 0, nonce |-> NoHeader, body |-> "nonjson", ct |-> None,
     location |-> None, up_link |-> None, cert |-> None, der_ok |-> FALSE]
NoFResult == [kind |-> None, arg |-> None]

\* no call made on the facade or on the bare Client
NoFacadeCall ==
    /\ fcall = None
    /\ fpc = "idle"
    /\ events = <<>>
    /\ dispatched = <<>>
    /\ fresult = NoFResult
    /\ iresponse = NoIssuance
    /\ certr = NoCertr
    /\ fnow = 0
    /\ fdeadline = 0
    /\ tries = <<>>
    /\ fauthzrs = <<>>
    /\ fullchain_pem = <<>>
    /\ tos_cb = None
    /\ regr_tos = None

\* ClientNetwork.__init__, and no call made on the transport
TransportInit ==
    /\ engine \in {1, 2}
    /\ nonces = {}
    /\ account \in {NoAccount, Account(AcctUrl1)}
    /\ pc = "idle"
    /\ call = NoCall
    /\ attempt = 0
    /\ jws = NoJws
    /\ reqs = <<>>
    /\ resps = <<>>
    /\ attempts = <<>>
    /\ posted = <<>>
    /\ outcome = NoOutcome
    /\ poolBefore = {}
    /\ acctBefore = account
    /\ registered = FALSE
    /\ srvNonce = 0
    /\ ncalls = 0

Init ==
    /\ TransportInit
    /\ PollIdle
    /\ ChainIdle
    /\ OrderIdle
    /\ facade = NoFacade
    /\ NoFacadeCall

\* the call ends: post() returns or raises o, and the engine method goes on
Finish(o) ==
    /\ pc' = "idle"
    /\ outcome' = o
    /\ attempts' = Append(attempts, [kind |-> o.kind, code |-> o.code])
    /\ account' = bind(call, o, account)
    /\ registered' = (registered \/ (call.op = "new_account" /\ o.kind = "return"
                                      /\ regr_parses(o.resp)))

\* an engine method calls ClientNetwork.post
Post ==
    /\ pc = "idle"
    /\ ncalls < MaxCalls
    /\ \E c \in EnginePosts(engine) :
         call' = [kind |-> "post", op |-> c.op, url |-> c.url, ver |-> c.ver, ct |-> c.ct]
    /\ pc' = "get_nonce"
    /\ attempt' = 1
    /\ jws' = NoJws
    /\ reqs' = <<>>
    /\ resps' = <<>>
    /\ attempts' = <<>>
    /\ outcome' = NoOutcome
    /\ poolBefore' = nonces
    /\ acctBefore' = account
    /\ ncalls' = ncalls + 1
    /\ UNCHANGED <<engine, nonces, account, posted, registered, srvNonce>>

\* _get_nonce on an empty pool: HEAD, then _add_nonce of its response
FetchNonce ==
    /\ pc = "get_nonce"
    /\ nonces = {}
    /\ \E resp \in HeadResponses(srvNonce + 1) :
         /\ reqs' = Append(reqs, Request("HEAD", nonce_url(call.url, call.ver), NoJws))
         /\ resps' = Append(resps, resp)
         /\ srvNonce' = srvNonce + Issued(resp)
         /\ IF send_failed(resp)
              THEN Finish(Raised("RequestException", None, None, NoResponse))
                   /\ UNCHANGED nonces
              ELSE LET a == add_nonce(nonces, resp)
                   IN  IF a.err # None
                         THEN Finish(Raised(a.err, None, None, resp))
                              /\ UNCHANGED nonces
                         ELSE /\ nonces' = a.pool
                              /\ UNCHANGED <<pc, outcome, attempts, account, registered>>
    /\ UNCHANGED <<engine, call, attempt, jws, posted, poolBefore, acctBefore, ncalls>>

\* _get_nonce hands out a nonce of the pool and _wrap_in_jws signs with it
Sign ==
    /\ pc = "get_nonce"
    /\ \E n \in nonces :
         /\ nonces' = pop(nonces, n)
         /\ LET j == wrap_in_jws(account, n, call.url, call.ver)
            IN  IF j.err # None
                  THEN Finish(Raised(j.err, None, None, NoResponse))
                       /\ UNCHANGED jws
                  ELSE /\ jws' = j
                       /\ pc' = "send"
                       /\ UNCHANGED <<outcome, attempts, account, registered>>
    /\ UNCHANGED <<engine, call, attempt, reqs, resps, posted, poolBefore, acctBefore,
                   srvNonce, ncalls>>

\* the rest of _post_once (send, _add_nonce, _check_response) and what post()
\* makes of its result
Send ==
    /\ pc = "send"
    /\ \E resp \in Responses(srvNonce + 1) :
         /\ reqs' = Append(reqs, Request("POST", call.url, jws))
         /\ resps' = Append(resps, resp)
         /\ posted' = Append(posted, jws.nonce)
         /\ srvNonce' = srvNonce + Issued(resp)
         /\ IF send_failed(resp)
              THEN Finish(Raised("RequestException", None, None, NoResponse))
                   /\ UNCHANGED <<nonces, attempt>>
              ELSE LET a == add_nonce(nonces, resp)
                       o == check_response(resp, call.ct)
                   IN  IF a.err # None
                         THEN Finish(Raised(a.err, None, None, resp))
                              /\ UNCHANGED <<nonces, attempt>>
                         ELSE /\ nonces' = a.pool
                              /\ IF retries(attempt, o)
                                   THEN /\ attempt' = attempt + 1
                                        /\ pc' = "get_nonce"
                                        /\ attempts' = Append(attempts,
                                               [kind |-> o.kind, code |-> o.code])
                                        /\ UNCHANGED <<outcome, account, registered>>
                                   ELSE Finish(o) /\ UNCHANGED attempt
    /\ UNCHANGED <<engine, call, jws, poolBefore, acctBefore, ncalls>>

GetUrls == {DirectoryUrl, OrderUrl}

\* ClientNetwork.get is called: the GET goes out
Get ==
    /\ pc = "idle"
    /\ ncalls < MaxCalls
    /\ \E url \in GetUrls, ct \in {JSON_CONTENT_TYPE, DER_CONTENT_TYPE} :
         /\ call' = [kind |-> "get", op |-> "get", url |-> url, ver |-> 0, ct |-> ct]
         /\ reqs' = <<Request("GET", url, NoJws)>>
    /\ pc' = "get"
    /\ resps' = <<>>
    /\ attempts' = <<>>
    /\ attempt' = 0
    /\ jws' = NoJws
    /\ outcome' = NoOutcome
    /\ poolBefore' = nonces
    /\ acctBefore' = account
    /\ ncalls' = ncalls + 1
    /\ UNCHANGED <<engine, nonces, account, posted, registered, srvNonce>>

\* ClientNetwork.get: the response arrives and goes through _check_response
GetResponse ==
    /\ pc = "get"
    /\ \E resp \in Responses(srvNonce + 1) :
         /\ resps' = <<resp>>
         /\ srvNonce' = srvNonce + Issued(resp)
         /\ nonces' = get_nonces(nonces, resp)
         /\ outcome' = IF send_failed(resp)
                         THEN Raised("RequestException", None, None, NoResponse)
                         ELSE check_response(resp, call.ct)
    /\ pc' = "idle"
    /\ UNCHANGED <<engine, account, call, attempt, jws, reqs, attempts, posted,
                   poolBefore, acctBefore, registered, ncalls>>

Next ==
    \/ Post /\ UNCHANGED <<pollVars, chainVars, orderVars, facadeVars>>
    \/ FetchNonce /\ UNCHANGED <<pollVars, chainVars, orderVars, facadeVars>>
    \/ Sign /\ UNCHANGED <<pollVars, chainVars, orderVars, facadeVars>>
    \/ Send /\ UNCHANGED <<pollVars, chainVars, orderVars, facadeVars>>
    \/ Get /\ UNCHANGED <<pollVars, chainVars, orderVars, facadeVars>>
    \/ GetResponse /\ UNCHANGED <<pollVars, chainVars, orderVars, facadeVars>>

Spec == Init /\ [][Next]_vars

-----------------------------------------------------------------------------
(* Vocabulary of the properties *)

\* positions in reqs / resps of the signed POSTs and of the HEADs of the call
PostIdx == {i \in 1..Len(reqs) : reqs[i].method = "POST"}
HeadIdx == {i \in 1..Len(reqs) : reqs[i].method = "HEAD"}
NumPosts == Cardinality(PostIdx)

\* a post() / get() call has run to its end
PostDone == pc = "idle" /\ call.kind = "post"
GetDone == pc = "idle" /\ call.kind = "get"

\* a response that was received at all
Received(r) == ~send_failed(r)

\* a badNonce problem document (HTTP 400) / a success response
IsBadNonceProblem(r) == Received(r) /\ ~ok(r.status) /\ r.status # 409 /\ r.body = "json_badNonce"
HasFreshNonce(r) == r.nonce.kind = "b64"
Accepts(r) == Received(r) /\ ok(r.status) /\ HasFreshNonce(r)

\* the last response of the call went through _check_response
Validated ==
    /\ Len(resps) > 0
    /\ Received(resps[Len(resps)])
    /\ \/ GetDone
       \/ PostDone /\ reqs[Len(reqs)].method = "POST" /\ Len(resps) = Len(reqs)
                   /\ HasFreshNonce(resps[Len(resps)])

LastResp == resps[Len(resps)]

-----------------------------------------------------------------------------
(* C1: every signed POST of a ClientNetwork carries a nonce that no earlier *)
(* POST of that ClientNetwork carried (the server never repeats a nonce).   *)
C1_NonceUniqueness ==
    \A i, j \in 1..Len(posted) : i # j => posted[i] # posted[j]

\* three POSTs over two calls, one of them a bad-nonce retry after a pre-fetch
C1_Witness ==
    /\ Len(posted) >= 3
    /\ PostDone
    /\ Len(attempts) = 2
    /\ HeadIdx # {}

(* C2: when the first signed POST of a post() call is answered with a       *)
(* badNonce problem carrying a fresh Replay-Nonce, post() sends exactly one *)
(* more POST, with no HEAD in between, and when that one is accepted the    *)
(* caller gets its response.                                                *)
C2_BadNonceRetry ==
    (PostDone /\ PostIdx # {}) =>
      LET first == CHOOSE i \in PostIdx : \A k \in PostIdx : i <= k
      IN  (IsBadNonceProblem(resps[first]) /\ HasFreshNonce(resps[first])) =>
            /\ NumPosts = 2
            /\ Len(reqs) = first + 1
            /\ reqs[first + 1].method = "POST"
            /\ Accepts(resps[first + 1]) => outcome = Returned(resps[first + 1])

C2_Witness ==
    /\ PostDone
    /\ NumPosts = 2
    /\ IsBadNonceProblem(resps[Len(resps) - 1])
    /\ Accepts(LastResp)
    /\ outcome.kind = "return"

\* the first _post_once of the finished call raised something else than a
\* badNonce problem
FirstAttemptOtherError ==
    /\ PostDone
    /\ attempts[1].kind # "return"
    /\ ~(attempts[1].kind = "messages.Error" /\ attempts[1].code = "badNonce")

(* C3 as stated: post() retries at most once; a retry that fails with       *)
(* badNonce propagates after exactly two POSTs; a first-attempt error of    *)
(* any other kind propagates after exactly one POST and no retry.           *)
C3_Original ==
    PostDone =>
      /\ NumPosts <= 2 /\ Len(attempts) <= 2
      /\ (Len(attempts) = 2 /\ attempts[2].kind = "messages.Error"
            /\ attempts[2].code = "badNonce")
           => (NumPosts = 2 /\ outcome.kind = "messages.Error" /\ outcome.code = "badNonce")
      /\ FirstAttemptOtherError
           => (NumPosts = 1 /\ Len(attempts) = 1 /\ outcome.kind = attempts[1].kind)

\* errors that _check_response raises, i.e. that come from a POST's response
ValidationErrors == {"ConflictError", "messages.Error", "ClientError"}

(* C3 amended: as C3, but a first-attempt error other than badNonce         *)
(* propagates without retry after at most one POST: exactly one when it     *)
(* comes from the response to that POST, none when the attempt fails before *)
(* the POST is sent (pre-fetch HEAD fails or gives no usable nonce, signing *)
(* fails).                                                                  *)
C3_RetryAtMostOnce ==
    PostDone =>
      /\ NumPosts <= 2 /\ Len(attempts) <= 2
      /\ (Len(attempts) = 2 /\ attempts[2].kind = "messages.Error"
            /\ attempts[2].code = "badNonce")
           => (NumPosts = 2 /\ outcome.kind = "messages.Error" /\ outcome.code = "badNonce")
      /\ FirstAttemptOtherError
           => /\ Len(attempts) = 1 /\ outcome.kind = attempts[1].kind
              /\ NumPosts <= 1
              /\ outcome.kind \in ValidationErrors => NumPosts = 1
              /\ NumPosts = 0 <=> (reqs = <<>> \/ reqs[Len(reqs)].method = "HEAD")

\* the retry failed with badNonce again and that error reached the caller
C3_Witness ==
    /\ PostDone
    /\ Len(attempts) = 2
    /\ outcome.kind = "messages.Error" /\ outcome.code = "badNonce"
    /\ NumPosts = 2

\* the signed requests claim C4 lists
C4_Ops == {"new_order", "finalize_order", "answer_challenge", "update_registration", "revoke"}

(* C4: once an account URI is bound (a v2 new_account has succeeded), every *)
(* signed request the v2 engine sends is a v2 request: its protected header *)
(* carries the target url, and the account URI as kid.                      *)
C4_KidOnceBound ==
    (engine = 2 /\ registered /\ account.set /\ account.uri # None
       /\ pc = "send" /\ call.op \in C4_Ops)
      => (jws.url = call.url /\ jws.kid = account.uri)

\* the nonce for the POST was obtained: the call did not end in the pre-fetch
NonceObtained ==
    ~(/\ reqs # <<>> /\ reqs[Len(reqs)].method = "HEAD"
      /\ outcome.kind \in {"MissingNonce", "BadNonce", "RequestException"})

(* C5: a v2 new_account issued while no account is bound is signed with url *)
(* and without kid, and the POST is sent.                                   *)
C5_NewAccountWithoutKid ==
    (PostDone /\ call.op = "new_account" /\ ~acctBefore.set /\ NonceObtained)
      => \E i \in PostIdx : reqs[i].jws.url = NewAccountUrl /\ reqs[i].jws.kid = None

(* C6: a response to the signed POST or to the pre-fetch HEAD that carries  *)
(* no Replay-Nonce header ends post() with MissingNonce: it is the last     *)
(* response of the call, whatever its body (no bad-nonce retry).            *)
C6_MissingNonce ==
    call.kind = "post" =>
      \A i \in 1..Len(resps) :
        (Received(resps[i]) /\ resps[i].nonce = NoHeader)
          => (pc = "idle" /\ i = Len(resps) /\ outcome.kind = "MissingNonce")

\* a badNonce problem without Replay-Nonce: MissingNonce, and no second POST
C6_Witness ==
    /\ PostDone
    /\ outcome.kind = "MissingNonce"
    /\ NumPosts = 1
    /\ LastResp.body = "json_badNonce" /\ LastResp.status = 400

(* C7: a response with status 409 that get() or post() validates raises     *)
(* ConflictError carrying its Location header, whatever its body and        *)
(* content type.                                                            *)
C7_Conflict ==
    (Validated /\ LastResp.status = 409)
      => (outcome.kind = "ConflictError" /\ outcome.arg = LastResp.location)

\* v2 new_account answered 409 with a JSON problem body and a Location
C7_Witness ==
    /\ PostDone /\ Validated
    /\ call.op = "new_account"
    /\ LastResp.status = 409 /\ LastResp.body = "json" /\ LastResp.location = AcctUrl7
    /\ outcome.kind = "ConflictError" /\ outcome.arg = AcctUrl7

\* the caller expects JSON
JsonExpected == call.ct = JSON_CONTENT_TYPE

(* C8 as stated: the outcome of validating a non-409 response is determined *)
(* by (ok?, body is JSON?, JSON expected?): not ok with JSON -> ProblemError *)
(* built from the body; not ok without JSON -> ClientError carrying the     *)
(* response; ok, JSON expected, no JSON -> ClientError; else returned.      *)
C8_Original ==
    (Validated /\ LastResp.status # 409) =>
      LET r == LastResp
      IN  CASE ~ok(r.status) /\ json(r) # None ->
                 outcome.kind = "messages.Error" /\ outcome.arg = json(r)
            [] ~ok(r.status) /\ json(r) = None ->
                 outcome.kind = "ClientError" /\ outcome.resp = r
            [] ok(r.status) /\ JsonExpected /\ json(r) = None ->
                 outcome.kind = "ClientError"
            [] OTHER -> outcome = Returned(r)

(* C8 amended: as C8, but a not-ok JSON body gives a ProblemError only when *)
(* it deserializes as a problem document; when it does not, the outcome is  *)
(* a ClientError carrying the response and the deserialization error.       *)
C8_Validation ==
    (Validated /\ LastResp.status # 409) =>
      LET r == LastResp
      IN  CASE ~ok(r.status) /\ json(r) # None /\ ~from_json_fails(json(r)) ->
                 outcome.kind = "messages.Error" /\ outcome.arg = json(r)
            [] ~ok(r.status) /\ json(r) # None /\ from_json_fails(json(r)) ->
                 /\ outcome.kind = "ClientError" /\ outcome.resp = r
                 /\ outcome.arg = "DeserializationError"
            [] ~ok(r.status) /\ json(r) = None ->
                 outcome.kind = "ClientError" /\ outcome.resp = r
            [] ok(r.status) /\ JsonExpected /\ json(r) = None ->
                 outcome.kind = "ClientError"
            [] OTHER -> outcome = Returned(r)

\* a problem document served with the wrong Content-Type is still used
C8_Witness ==
    /\ Validated
    /\ ~ok(LastResp.status) /\ LastResp.status # 409
    /\ LastResp.body = "json" /\ LastResp.ct # JSON_ERROR_CONTENT_TYPE
    /\ outcome.kind = "messages.Error"

(* C9 as stated: after a get() whose response carries a Replay-Nonce, the   *)
(* pool contains the decoded nonce of that response.                        *)
C9_Original ==
    (GetDone /\ Validated /\ HasFreshNonce(LastResp))
      => decode(LastResp.nonce).val \in nonces

(* C9 amended: get() leaves the nonce pool as it was, also when the GET     *)
(* response carries a Replay-Nonce header (that nonce is not stored).       *)
C9_GetKeepsPool ==
    (GetDone /\ Len(resps) > 0) => nonces = poolBefore

\* a GET on a non-empty pool whose response carried a Replay-Nonce
C9_Witness ==
    /\ GetDone /\ Validated
    /\ HasFreshNonce(LastResp)
    /\ outcome.kind = "return"
    /\ poolBefore # {}

\* where claim C10 says the pre-fetch goes
C10_NonceSource == IF call.ver = 2 THEN NewNonceUrl ELSE DirectoryUrl

(* C10: on an empty pool the nonce is fetched from the directory's newNonce *)
(* endpoint (v2 request) or from the directory URL (v1 request); on a       *)
(* non-empty pool no pre-fetch is made.                                     *)
C10_PrefetchSource ==
    call.kind = "post" =>
      /\ \A i \in HeadIdx : reqs[i].url = C10_NonceSource
      /\ (poolBefore # {} /\ reqs # <<>>) => reqs[1].method # "HEAD"

-----------------------------------------------------------------------------
(* Client.poll_and_request_issuance (ACME v1) *)

MaxAttempts == 2
mintime_default == 5
SecondsPerDay == 86400

AuthzUrl1 == "authz/1"
AuthzUrl2 == "authz/2"
AuthzMovedUrl == "authz/moved"
Identifiers == {"a.example", "b.example"}

STATUS_PENDING == "pending"
STATUS_VALID == "valid"
STATUS_INVALID == "invalid"
STATUS_DEACTIVATED == "deactivated"

\* messages.Authorization; challenges holds the error of each challenge
Authorization(identifier, status, challenges) ==
    [identifier |-> identifier, status |-> status, challenges |-> challenges]

AuthorizationResource(body, uri) == [body |-> body, uri |-> uri]

\* the authorizations a caller may hold before polling
Authzr1 == AuthorizationResource(Authorization("a.example", STATUS_PENDING, <<>>), AuthzUrl1)
Authzr2 == AuthorizationResource(Authorization("b.example", STATUS_PENDING, <<>>), AuthzUrl2)

\* authzrs arguments: none, one, two different, the same one twice
AuthzrLists == {<<>>, <<Authzr1>>, <<Authzr1, Authzr2>>, <<Authzr1, Authzr1>>}

\* Retry-After header of a response: absent, decimal seconds, an HTTP-date
\* (val is the instant it names), or text that is neither
RetryAfter(kind, val) == [kind |-> kind, val |-> val]

RetryAfterHeaders(t) ==
    {NoRetryAfter, RetryAfter("garbage", 0), RetryAfter("int", 2),
     RetryAfter("int", SecondsPerDay), RetryAfter("date", t - 1), RetryAfter("date", t + 2)}

\* a response to the GET of an authorization URL
AuthzResponse(st, body, loc, ra, authz) ==
    [status |-> st, nonce |-> NoHeader, body |-> body, ct |-> JSON_CONTENT_TYPE,
     location |-> loc, retry_after |-> ra, authz |-> authz]

NoAuthorization == Authorization(None, None, <<>>)

\* what the server may answer to a v1 poll of authzr at instant t: a pending
\* authorization with any Retry-After, a final one, one for another
\* identifier, or a failure (status 0 stands for a transport failure)
PollResponses(authzr, t) ==
    {AuthzResponse(200, "json", loc, ra,
                   Authorization(authzr.body.identifier, STATUS_PENDING, <<>>)) :
        loc \in {None, AuthzMovedUrl}, ra \in RetryAfterHeaders(t)}
    \cup {AuthzResponse(200, "json", loc, NoRetryAfter,
                        Authorization(authzr.body.identifier, s, <<>>)) :
            loc \in {None, AuthzMovedUrl}, s \in {STATUS_VALID, STATUS_INVALID}}
    \cup {AuthzResponse(200, "json", None, NoRetryAfter,
                        Authorization(id, STATUS_PENDING, <<>>)) :
            id \in Identifiers \ {authzr.body.identifier}}
    \cup {AuthzResponse(st[1], st[2], None, NoRetryAfter, NoAuthorization) :
            st \in {<<0, "nonjson">>, <<400, "json">>, <<200, "nonjson">>,
                    <<200, "json_undeser">>}}

\* mutant: the uri argument is not used when Location is absent
authzr_from_response_no_default(response, identifier, uri) ==
    LET authzr == AuthorizationResource(response.authz, response.location)
    IN  IF from_json_fails(json(response))
          THEN [err |-> "DeserializationError", authzr |-> authzr]
        ELSE IF identifier # None /\ authzr.body.identifier # identifier
          THEN [err |-> "UnexpectedUpdate", authzr |-> authzr]
        ELSE [err |-> None, authzr |-> authzr]

\* ClientBase._authzr_from_response
authzr_from_response(response, identifier, uri) ==
    LET authzr == AuthorizationResource(response.authz,
                      IF response.location # None THEN response.location ELSE uri)
    IN  IF from_json_fails(json(response))
          THEN [err |-> "DeserializationError", authzr |-> authzr]
        ELSE IF identifier # None /\ authzr.body.identifier # identifier
          THEN [err |-> "UnexpectedUpdate", authzr |-> authzr]
        ELSE [err |-> None, authzr |-> authzr]

\* ClientNetwork.get(url): the response, or the exception of _send_request /
\* _check_response
net_get(response, content_type) ==
    IF send_failed(response)
      THEN Raised("RequestException", None, None, NoResponse)
      ELSE check_response(response, content_type)

\* ClientBase.retry_after(response, default), called at instant t
retry_after(response, default, t) ==
    LET h == response.retry_after
    IN  CASE h.kind = "int"  -> t + h.val
          [] h.kind = "date" -> h.val
          [] OTHER           -> t + default

\* (when - now).seconds of a positive timedelta: the days are not in it
timedelta_seconds(d) == d % SecondsPerDay

\* the instant the GET is sent for an entry popped at instant t
after_sleep(when, t) == IF when > t THEN t + timedelta_seconds(when - t) ELSE t

Entry(when, index, authzr) == [when |-> when, index |-> index, authzr |-> authzr]

\* mutant: equal times are ordered by descending index
heap_less_desc(e1, e2) ==
    e1.when < e2.when \/ (e1.when = e2.when /\ e1.index > e2.index)

\* order of the (when, index, authzr) tuples in the heap
heap_less(e1, e2) ==
    e1.when < e2.when \/ (e1.when = e2.when /\ e1.index < e2.index)

heappop(heap) == CHOOSE e \in heap : \A f \in heap \ {e} : heap_less(e, f)

\* mutant: only exhaustion fails the call
poll_failed_exhausted_only(exh, upd) == exh # {}

\* the test that raises PollError once the heap is empty
poll_failed(exh, upd) ==
    exh # {} \/ \E a \in DOMAIN upd : upd[a].body.status = STATUS_INVALID

Range(f) == {f[x] : x \in DOMAIN f}

\* poll_and_request_issuance(csr, authzrs, mintime, max_attempts) is called
PollAndRequestIssuance ==
    /\ ppc = "idle"
    /\ \E as \in AuthzrLists, mt \in {mintime_default}, ma \in 1..MaxAttempts :
        /\ authzrs' = as
        /\ mintime' = mt
        /\ max_attempts' = ma
        /\ waiting' = {Entry(now, i, as[i]) : i \in DOMAIN as}
        /\ updated' = [a \in Range(as) |-> a]
        /\ poll_attempts' = [a \in Range(as) |-> 0]
        /\ sawLocation' = [a \in Range(as) |-> FALSE]
        /\ npolls' = [i \in DOMAIN as |-> 0]
        /\ sched' = [i \in DOMAIN as |-> [ra |-> NoRetryAfter, at |-> now]]
    /\ exhausted' = {}
    /\ ppc' = "loop"
    /\ UNCHANGED <<now, presult, issued, lastPoll>>

\* one iteration of the while loop: pop, sleep, poll, reschedule
PollStep ==
    /\ ppc = "loop"
    /\ waiting # {}
    /\ LET e == heappop(waiting)
           at == after_sleep(e.when, now)
           cur == updated[e.authzr]
       IN  \E response \in PollResponses(cur, at) :
            LET o == net_get(response, JSON_CONTENT_TYPE)
                r == authzr_from_response(response, cur.body.identifier, cur.uri)
                returned == o.kind = "return" /\ r.err = None
                n == poll_attempts[e.authzr] + 1
                terminal == r.authzr.body.status \in {STATUS_VALID, STATUS_INVALID}
            IN  /\ now' = at
                /\ npolls' = [npolls EXCEPT ![e.index] = @ + 1]
                /\ lastPoll' = [index |-> e.index, at |-> at, due |-> e.when,
                                uriBefore |-> cur.uri, location |-> response.location,
                                returned |-> returned, ra |-> sched[e.index].ra,
                                since |-> sched[e.index].at]
                /\ IF ~returned
                     THEN /\ ppc' = "raised"
                          /\ presult' = (IF o.kind # "return" THEN o.kind ELSE r.err)
                          /\ UNCHANGED <<waiting, updated, poll_attempts, exhausted,
                                         sched, sawLocation>>
                     ELSE /\ updated' = [updated EXCEPT ![e.authzr] = r.authzr]
                          /\ poll_attempts' = [poll_attempts EXCEPT ![e.authzr] = n]
                          /\ sawLocation' = [sawLocation EXCEPT ![e.authzr] =
                                                @ \/ response.location # None]
                          /\ sched' = [sched EXCEPT ![e.index] =
                                          [ra |-> response.retry_after, at |-> at]]
                          /\ waiting' =
                                IF ~terminal /\ n < max_attempts
                                  THEN (waiting \ {e}) \cup
                                       {Entry(retry_after(response, mintime, at),
                                              e.index, e.authzr)}
                                  ELSE waiting \ {e}
                          /\ exhausted' =
                                IF ~terminal /\ ~(n < max_attempts)
                                  THEN exhausted \cup {e.authzr}
                                  ELSE exhausted
                          /\ UNCHANGED <<ppc, presult>>
    /\ UNCHANGED <<authzrs, mintime, max_attempts, issued>>

\* the heap is empty: PollError, or go on to request_issuance
PollEnd ==
    /\ ppc = "loop"
    /\ waiting = {}
    /\ IF poll_failed(exhausted, updated)
         THEN ppc' = "done" /\ presult' = "PollError"
         ELSE ppc' = "issue" /\ UNCHANGED presult
    /\ UNCHANGED <<authzrs, mintime, max_attempts, waiting, updated, poll_attempts,
                   exhausted, now, issued, npolls, sched, lastPoll, sawLocation>>

\* return self.request_issuance(csr, updated_authzrs), updated_authzrs
RequestIssuance ==
    /\ ppc = "issue"
    /\ issued' = issued + 1
    /\ ppc' = "done"
    /\ IF authzrs = <<>>
         THEN presult' = "AssertionError"
         ELSE presult' \in {"return", "messages.Error"}
    /\ UNCHANGED <<authzrs, mintime, max_attempts, waiting, updated, poll_attempts,
                   exhausted, now, npolls, sched, lastPoll, sawLocation>>

\* a v1 Client engine, no call made yet
PollInit == Init /\ engine = 1 /\ account = NoAccount

PollNext ==
    \/ PollAndRequestIssuance /\ UNCHANGED <<netVars, chainVars, orderVars, facadeVars>>
    \/ PollStep /\ UNCHANGED <<netVars, chainVars, orderVars, facadeVars>>
    \/ PollEnd /\ UNCHANGED <<netVars, chainVars, orderVars, facadeVars>>
    \/ RequestIssuance /\ UNCHANGED <<netVars, chainVars, orderVars, facadeVars>>

SpecPoll == PollInit /\ [][PollNext]_vars

-----------------------------------------------------------------------------
(* Properties of poll_and_request_issuance *)

RECURSIVE SumPolls(_)
SumPolls(I) ==
    IF I = {} THEN 0
    ELSE LET i == CHOOSE x \in I : TRUE IN npolls[i] + SumPolls(I \ {i})

\* GETs sent so far for the input authorization a, over all its positions
PollsOf(a) == SumPolls({i \in DOMAIN authzrs : authzrs[i] = a})

AllValid == \A a \in DOMAIN updated : updated[a].body.status = STATUS_VALID
SomeInvalid == \E a \in DOMAIN updated : updated[a].body.status = STATUS_INVALID

\* C11: once the heap is empty the call raises PollError exactly when some
\* authorization is exhausted or its latest status is invalid, and then no
\* issuance request is made; otherwise every latest status is valid and
\* request_issuance is called exactly once, after the last poll.
C11_PollErrorOrIssuance ==
    /\ issued <= 1
    /\ issued = 1 => ppc = "done" /\ waiting = {}
    /\ ppc = "issue" => exhausted = {} /\ AllValid /\ issued = 0
    /\ (ppc = "done" /\ presult = "PollError") =>
          /\ exhausted # {} \/ SomeInvalid
          /\ issued = 0
          /\ waiting = {}
    /\ (ppc = "done" /\ presult # "PollError") =>
          /\ exhausted = {}
          /\ AllValid
          /\ issued = 1

\* two authorizations, one ends valid and one invalid, none exhausted
C11_Witness ==
    /\ ppc = "done"
    /\ presult = "PollError"
    /\ exhausted = {}
    /\ Len(authzrs) = 2
    /\ SomeInvalid
    /\ \E a \in DOMAIN updated : updated[a].body.status = STATUS_VALID

\* C12: each distinct input authorization is polled at most max_attempts
\* times, whatever the server answers.
C12_AttemptBudget ==
    \A a \in DOMAIN updated : PollsOf(a) <= max_attempts

\* each position of the input list is polled at most max_attempts times, so
\* the loop ends after at most Len(authzrs) * max_attempts polls
PollsPerEntryBounded ==
    /\ \A i \in DOMAIN npolls : npolls[i] <= max_attempts
    /\ SumPolls(DOMAIN npolls) <= Len(authzrs) * max_attempts

\* C13: a poll scheduled by a response with Retry-After: N is sent no sooner
\* than N seconds after that response, and one scheduled by an HTTP-date no
\* sooner than that instant.
C13_RetryAfterRespected ==
    lastPoll.index # 0 =>
        /\ lastPoll.ra.kind = "int" => lastPoll.at >= lastPoll.since + lastPoll.ra.val
        /\ lastPoll.ra.kind = "date" => lastPoll.at >= lastPoll.ra.val

\* C14: polls follow the order of (next poll time, input index): the entry
\* polled precedes every other waiting entry in that order, and no
\* authorization is polled before the ones listed ahead of it had a first poll.
C14_PollOrder ==
    /\ \A i, j \in DOMAIN npolls : (i < j /\ npolls[j] > 0) => npolls[i] > 0
    /\ lastPoll.index # 0 =>
          \A e \in waiting :
              e.index # lastPoll.index =>
                  \/ lastPoll.due < e.when
                  \/ (lastPoll.due = e.when /\ lastPoll.index < e.index)

\* a second-round tie: both entries due at the same instant, the first polled
C14_Witness ==
    /\ lastPoll.index = 1
    /\ npolls[1] = 2
    /\ \E e \in waiting : e.index = 2 /\ e.when = lastPoll.due /\ npolls[2] = 1

\* C16 as stated: the held URI never differs from the originally bound one.
C16_Original ==
    \A a \in DOMAIN updated : updated[a].uri = a.uri

\* C16: the held URI stays the originally bound one as long as no poll
\* response carried a Location header; a poll response with Location replaces
\* it by that value, one without leaves it as it was.
C16_UriFollowsLocation ==
    /\ \A a \in DOMAIN updated : ~sawLocation[a] => updated[a].uri = a.uri
    /\ lastPoll.returned =>
          updated[authzrs[lastPoll.index]].uri =
              (IF lastPoll.location # None THEN lastPoll.location
                                           ELSE lastPoll.uriBefore)

\* a poll sent to the replaced URI, answered without Location
C16_Witness ==
    /\ lastPoll.returned
    /\ lastPoll.uriBefore = AuthzMovedUrl
    /\ lastPoll.location = None
    /\ updated[authzrs[lastPoll.index]].uri = AuthzMovedUrl

-----------------------------------------------------------------------------
(* Client.fetch_chain (ACME v1) *)

MaxLength == 3

CertUrls == {"cert/A", "cert/B", "cert/C"}

\* a response to the GET of a certificate URL: the certificate served there
\* and its "up" link; der_ok tells whether the content loads as a certificate
CertResponse(st, body, link, cert, der_ok) ==
    [status |-> st, nonce |-> NoHeader, body |-> body, ct |-> DER_CONTENT_TYPE,
     location |-> None, up_link |-> link, cert |-> cert, der_ok |-> der_ok]

\* what the server may answer to the GET of uri: the certificate with its up
\* link, content that is no certificate, a problem document, or no answer
CertResponses(uri) ==
    {CertResponse(200, "nonjson", up[uri], uri, TRUE),
     CertResponse(200, "nonjson", up[uri], uri, FALSE),
     CertResponse(400, "json", None, None, FALSE),
     CertResponse(0, "nonjson", None, None, FALSE)}

\* Client._get_cert: the (response, cert) pair, or the exception raised
get_cert(response) ==
    LET o == net_get(response, DER_CONTENT_TYPE)
    IN  IF o.kind # "return" THEN [err |-> o.kind, response |-> response, cert |-> None]
        ELSE IF ~response.der_ok
          THEN [err |-> "crypto.Error", response |-> response, cert |-> None]
        ELSE [err |-> None, response |-> response, cert |-> response.cert]

\* mutant: the length test admits one more certificate
chain_continues_one_more(uri, ch, max) == uri # None /\ Len(ch) <= max

\* the condition of the while loop of fetch_chain
chain_continues(uri, ch, max) == uri # None /\ Len(ch) < max

\* fetch_chain(certr, max_length) is called; the server's links are any
FetchChain ==
    /\ cpc = "idle"
    /\ cert_chain_uri' \in CertUrls \cup {None}
    /\ max_length' \in 0..MaxLength
    /\ up' \in [CertUrls -> CertUrls \cup {None}]
    /\ chain' = <<>>
    /\ chain_uri' = cert_chain_uri'
    /\ cpc' = "loop"
    /\ UNCHANGED <<cresult, cgets>>

\* one iteration of the while loop
FetchCert ==
    /\ cpc = "loop"
    /\ chain_continues(chain_uri, chain, max_length)
    /\ cgets' = cgets + 1
    /\ \E response \in CertResponses(chain_uri) :
        LET g == get_cert(response)
        IN  IF g.err # None
              THEN /\ cpc' = "done"
                   /\ cresult' = g.err
                   /\ UNCHANGED <<chain, chain_uri>>
              ELSE /\ chain_uri' = response.up_link
                   /\ chain' = Append(chain, g.cert)
                   /\ UNCHANGED <<cpc, cresult>>
    /\ UNCHANGED <<cert_chain_uri, max_length, up>>

\* after the loop: the recursion limit error, or the chain
FetchChainEnd ==
    /\ cpc = "loop"
    /\ ~chain_continues(chain_uri, chain, max_length)
    /\ cpc' = "done"
    /\ cresult' = (IF chain_uri # None THEN "errors.Error" ELSE "return")
    /\ UNCHANGED <<cert_chain_uri, max_length, up, chain, chain_uri, cgets>>

ChainNext ==
    \/ FetchChain /\ UNCHANGED <<netVars, pollVars, orderVars, facadeVars>>
    \/ FetchCert /\ UNCHANGED <<netVars, pollVars, orderVars, facadeVars>>
    \/ FetchChainEnd /\ UNCHANGED <<netVars, pollVars, orderVars, facadeVars>>

SpecChain == PollInit /\ [][ChainNext]_vars

-----------------------------------------------------------------------------
(* Properties of fetch_chain *)

\* the certificates met from uri by following the server's up links, at most k
RECURSIVE Followed(_, _)
Followed(uri, k) ==
    IF uri = None \/ k = 0 THEN <<>>
    ELSE <<uri>> \o Followed(up[uri], k - 1)

\* the up-link chain from uri ends within k certificates
RECURSIVE EndsWithin(_, _)
EndsWithin(uri, k) ==
    uri = None \/ (k > 0 /\ EndsWithin(up[uri], k - 1))

\* C17: fetch_chain sends at most max_length GETs; it returns the
\* certificates in the order followed exactly when the up-link chain ends
\* within max_length certificates (nothing fetched when cert_chain_uri is
\* None), and raises the recursion-limit error when an up link remains after
\* max_length certificates; a failed GET ends the call with that failure.
C17_FetchChainBounded ==
    /\ cgets <= max_length
    /\ Len(chain) <= cgets
    /\ cpc # "idle" => chain = Followed(cert_chain_uri, Len(chain))
    /\ (cpc = "done" /\ cresult = "return") =>
          /\ EndsWithin(cert_chain_uri, max_length)
          /\ chain = Followed(cert_chain_uri, max_length)
          /\ cgets = Len(chain)
          /\ cert_chain_uri = None => (chain = <<>> /\ cgets = 0)
    /\ (cpc = "done" /\ cresult = "errors.Error") =>
          /\ ~EndsWithin(cert_chain_uri, max_length)
          /\ Len(chain) = max_length
          /\ cgets = max_length
    /\ (cpc = "done" /\ cgets = Len(chain)) =>
          cresult = (IF EndsWithin(cert_chain_uri, max_length)
                       THEN "return" ELSE "errors.Error")

\* the cyclic chain A -> B -> A, followed until the limit
C17_Witness ==
    /\ cpc = "done"
    /\ cresult = "errors.Error"
    /\ cert_chain_uri = "cert/A"
    /\ up["cert/A"] = "cert/B"
    /\ up["cert/B"] = "cert/A"
    /\ chain = <<"cert/A", "cert/B", "cert/A">>

-----------------------------------------------------------------------------
(* ClientV2.poll_authorizations and ClientV2.finalize_order *)

MaxWait == 2

CertificateUrl == "cert/1"
PemChainText == "-----BEGIN CERTIFICATE-----"
JsonText == "{}"
PEM_CHAIN_CONTENT_TYPE == "application/pem-certificate-chain"

\* messages.OrderResource for an order with the given authorization URLs and
\* the authorizations new_order materialized for them
OrderResource(urls, azs) ==
    [uri |-> OrderUrl,
     body |-> [authorizations |-> urls, finalize |-> FinalizeUrl, error |-> None,
               certificate |-> None],
     authorizations |-> azs, fullchain_pem |-> None]

\* orderr arguments: no, one, or two authorizations, all pending
OrderResources ==
    {OrderResource(<<>>, <<>>),
     OrderResource(<<AuthzUrl1>>, <<Authzr1>>),
     OrderResource(<<AuthzUrl1, AuthzUrl2>>, <<Authzr1, Authzr2>>)}

\* deadline arguments for a call made at instant t: passed, now, or ahead
Deadlines(t) == {t - 1, t} \cup {t + k : k \in 1..MaxWait}

\* time a request takes, in whole seconds
Latencies == {0, 1}

\* errors of the challenges of an authorization, in order
ChallengeErrors ==
    {<<None>>, <<"unauthorized">>, <<None, "unauthorized">>,
     <<"unauthorized", "unauthorized">>}

\* what the server may answer to the GET of the authorization URL of authzr
\* (v2): the authorization in any status, an authorization for another
\* identifier, or a failure (status 0 stands for a transport failure)
V2AuthzResponses(authzr) ==
    {AuthzResponse(200, "json", None, NoRetryAfter,
                   Authorization(authzr.body.identifier, s, ch)) :
        ch \in ChallengeErrors,
        s \in {STATUS_PENDING, STATUS_VALID, STATUS_INVALID, STATUS_DEACTIVATED}}
    \cup {AuthzResponse(200, "json", None, NoRetryAfter,
                        Authorization(id, STATUS_VALID, <<None>>)) :
            id \in Identifiers \ {authzr.body.identifier}}
    \cup {AuthzResponse(st[1], st[2], None, NoRetryAfter, NoAuthorization) :
            st \in {<<0, "nonjson">>, <<400, "json">>, <<200, "nonjson">>,
                    <<200, "json_undeser">>}}

\* messages.Order as polled: error and certificate, each possibly None
Order(error, certificate) ==
    [authorizations |-> <<>>, finalize |-> FinalizeUrl, error |-> error,
     certificate |-> certificate]

OrderResponse(st, body, order) ==
    [status |-> st, nonce |-> NoHeader, body |-> body, ct |-> JSON_CONTENT_TYPE,
     location |-> None, order |-> order]

\* what the server may answer to the GET of the order URL
OrderResponses ==
    {OrderResponse(200, "json", Order(e, c)) :
        e \in {None, "rejectedIdentifier"}, c \in {None, CertificateUrl}}
    \cup {OrderResponse(st[1], st[2], Order(None, None)) :
            st \in {<<0, "nonjson">>, <<400, "json">>, <<200, "nonjson">>,
                    <<200, "json_undeser">>}}

TextResponse(st, body, ct, text) ==
    [status |-> st, nonce |-> NoHeader, body |-> body, ct |-> ct,
     location |-> None, text |-> text]

\* what the server may answer to the GET of the certificate URL: the PEM
\* chain, a JSON text, a problem document, or no answer
CertificateResponses ==
    {TextResponse(200, "nonjson", PEM_CHAIN_CONTENT_TYPE, PemChainText),
     TextResponse(200, "json", JSON_CONTENT_TYPE, JsonText),
     TextResponse(400, "json", JSON_ERROR_CONTENT_TYPE, JsonText),
     TextResponse(0, "nonjson", None, None)}

\* what the server may answer to the finalize POST
FinalizeResponses ==
    {OrderResponse(st[1], st[2], Order(None, None)) :
        st \in {<<200, "json">>, <<400, "json">>, <<0, "nonjson">>}}

\* ClientNetwork.post as the engine sees it: the response, or an exception
net_post(response, content_type) ==
    IF send_failed(response)
      THEN Raised("RequestException", None, None, NoResponse)
      ELSE check_response(response, content_type)

\* mutant: the deadline instant itself still counts as before the deadline
before_deadline_inclusive(t, d) == t <= d

\* datetime.datetime.now() < deadline
before_deadline(t, d) == t < d

\* mutant: the status of the authorization is not looked at
RECURSIVE failed_authzrs_any_status(_)
failed_authzrs_any_status(rs) ==
    IF rs = <<>> THEN <<>>
    ELSE LET authzr == Head(rs)
             errs == SelectSeq(authzr.body.challenges, LAMBDA e : e # None)
         IN  [k \in 1..Len(errs) |-> authzr] \o failed_authzrs_any_status(Tail(rs))

\* mutant: every non-valid authorization is appended, error or not
RECURSIVE failed_authzrs_all_nonvalid(_)
failed_authzrs_all_nonvalid(rs) ==
    IF rs = <<>> THEN <<>>
    ELSE LET authzr == Head(rs)
         IN  (IF authzr.body.status # STATUS_VALID THEN <<authzr>> ELSE <<>>)
                 \o failed_authzrs_all_nonvalid(Tail(rs))

\* the failed list of poll_authorizations: a non-valid authorization is
\* appended once for each of its challenges that has an error
RECURSIVE failed_authzrs(_)
failed_authzrs(rs) ==
    IF rs = <<>> THEN <<>>
    ELSE LET authzr == Head(rs)
             errs == IF authzr.body.status # STATUS_VALID
                       THEN SelectSeq(authzr.body.challenges, LAMBDA e : e # None)
                       ELSE <<>>
         IN  [k \in 1..Len(errs) |-> authzr] \o failed_authzrs(Tail(rs))

Result(kind, o, failed) == [kind |-> kind, orderr |-> o, failed |-> failed]

\* the call ends raising kind
OrderRaise(kind) ==
    /\ opc' = "done"
    /\ oresult' = Result(kind, NoOrderResource, <<>>)

default_deadline_seconds == 90

\* mutant: the caller's deadline is not looked at
poll_and_finalize_deadline_fresh(arg, t) == t + default_deadline_seconds

\* the deadline poll_and_finalize, called at instant t, runs both phases with
poll_and_finalize_deadline(arg, t) ==
    IF ~arg.given THEN t + default_deadline_seconds ELSE arg.at

\* poll_and_finalize(orderr, deadline) is called and enters poll_authorizations
PollAndFinalize ==
    /\ opc = "idle"
    /\ v2call' = "poll_and_finalize"
    /\ orderr' \in OrderResources
    /\ deadline_arg' \in {NoDeadline} \cup {GivenDeadline(d) : d \in Deadlines(clock)}
    /\ deadline' = poll_and_finalize_deadline(deadline_arg', clock)
    /\ url_i' = 1
    /\ responses' = <<>>
    /\ authz_gets' = [i \in DOMAIN orderr'.body.authorizations |-> <<>>]
    /\ opc' = "authz"
    /\ UNCHANGED <<clock, oresult, posts, order_gets, order_seen, cert_resps>>

\* poll_authorizations(orderr, deadline) is called
PollAuthorizations ==
    /\ opc = "idle"
    /\ v2call' = "poll_authorizations"
    /\ orderr' \in OrderResources
    /\ deadline' \in Deadlines(clock)
    /\ deadline_arg' = GivenDeadline(deadline')
    /\ url_i' = 1
    /\ responses' = <<>>
    /\ authz_gets' = [i \in DOMAIN orderr'.body.authorizations |-> <<>>]
    /\ opc' = "authz"
    /\ UNCHANGED <<clock, oresult, posts, order_gets, order_seen, cert_resps>>

\* one iteration of the while loop for the current URL
AuthzGet ==
    /\ opc = "authz"
    /\ url_i <= Len(orderr.body.authorizations)
    /\ before_deadline(clock, deadline)
    /\ Len(authz_gets[url_i]) < MaxWait    \* exploration bound on one while loop
    /\ authz_gets' = [authz_gets EXCEPT ![url_i] = Append(@, clock)]
    /\ \E response \in V2AuthzResponses(orderr.authorizations[url_i]),
          lat \in Latencies :
        LET url == orderr.body.authorizations[url_i]
            o == net_get(response, JSON_CONTENT_TYPE)
            r == authzr_from_response(response, None, url)
        IN  IF o.kind # "return" \/ r.err # None
              THEN /\ OrderRaise(IF o.kind # "return" THEN o.kind ELSE r.err)
                   /\ clock' = clock + lat
                   /\ UNCHANGED <<url_i, responses>>
            ELSE IF r.authzr.body.status # STATUS_PENDING
              THEN /\ responses' = Append(responses, r.authzr)
                   /\ url_i' = url_i + 1
                   /\ clock' = clock + lat
                   /\ UNCHANGED <<opc, oresult>>
            ELSE /\ clock' = clock + lat + 1
                 /\ UNCHANGED <<url_i, responses, opc, oresult>>
    /\ UNCHANGED <<v2call, orderr, deadline, deadline_arg, posts, order_gets, order_seen, cert_resps>>

\* the while loop of the current URL ends because the deadline has come
AuthzDeadline ==
    /\ opc = "authz"
    /\ url_i <= Len(orderr.body.authorizations)
    /\ ~before_deadline(clock, deadline)
    /\ url_i' = url_i + 1
    /\ UNCHANGED <<v2call, opc, orderr, deadline, deadline_arg, clock, responses, oresult,
                   authz_gets, posts, order_gets, order_seen, cert_resps>>

\* after the for loop: TimeoutError, ValidationError, or the updated order,
\* with which poll_and_finalize goes on to finalize_order
AuthzEnd ==
    /\ opc = "authz"
    /\ url_i > Len(orderr.body.authorizations)
    /\ LET failed == failed_authzrs(responses)
           returned == [orderr EXCEPT !.authorizations = responses]
       IN  IF Len(responses) < Len(orderr.body.authorizations)
             THEN /\ OrderRaise("TimeoutError")
                  /\ UNCHANGED orderr
           ELSE IF Len(failed) > 0
             THEN /\ opc' = "done"
                  /\ oresult' = Result("ValidationError", NoOrderResource, failed)
                  /\ UNCHANGED orderr
           ELSE IF v2call = "poll_and_finalize"
             THEN /\ opc' = "post"
                  /\ orderr' = returned
                  /\ UNCHANGED oresult
           ELSE /\ opc' = "done"
                /\ oresult' = Result("return", returned, <<>>)
                /\ UNCHANGED orderr
    /\ UNCHANGED <<v2call, deadline, deadline_arg, clock, url_i, responses, authz_gets,
                   posts, order_gets, order_seen, cert_resps>>

\* finalize_order(orderr, deadline) is called
FinalizeOrder ==
    /\ opc = "idle"
    /\ v2call' = "finalize_order"
    /\ orderr' \in OrderResources
    /\ deadline' \in Deadlines(clock)
    /\ deadline_arg' = GivenDeadline(deadline')
    /\ opc' = "post"
    /\ UNCHANGED <<clock, url_i, responses, oresult, authz_gets, posts, order_gets,
                   order_seen, cert_resps>>

\* self.net.post(orderr.body.finalize, wrapped_csr)
FinalizePost ==
    /\ opc = "post"
    /\ posts' = Append(posts, clock)
    /\ \E response \in FinalizeResponses, lat \in Latencies :
        LET o == net_post(response, finalize_order.ct)
        IN  /\ clock' = clock + lat
            /\ IF o.kind # "return"
                 THEN OrderRaise(o.kind)
                 ELSE opc' = "order" /\ UNCHANGED oresult
    /\ UNCHANGED <<v2call, orderr, deadline, deadline_arg, url_i, responses, authz_gets,
                   order_gets, order_seen, cert_resps>>

\* one iteration of the while loop: sleep a second, GET the order
OrderPoll ==
    /\ opc = "order"
    /\ before_deadline(clock, deadline)
    /\ Len(order_gets) < MaxWait    \* exploration bound on the while loop
    /\ order_gets' = Append(order_gets, clock + 1)
    /\ \E response \in OrderResponses, lat \in Latencies :
        LET o == net_get(response, JSON_CONTENT_TYPE)
            body == response.order
        IN  /\ clock' = clock + 1 + lat
            /\ IF o.kind # "return"
                 THEN OrderRaise(o.kind) /\ UNCHANGED order_seen
               ELSE IF from_json_fails(json(response))
                 THEN OrderRaise("DeserializationError") /\ UNCHANGED order_seen
               ELSE /\ order_seen' = Append(order_seen, body)
                    /\ IF body.error # None
                         THEN OrderRaise("IssuanceError")
                       ELSE IF body.certificate # None
                         THEN opc' = "cert" /\ UNCHANGED oresult
                       ELSE UNCHANGED <<opc, oresult>>
    /\ UNCHANGED <<v2call, orderr, deadline, deadline_arg, url_i, responses, authz_gets, posts,
                   cert_resps>>

\* certificate_response = self.net.get(body.certificate).text, and the return
CertificateGet ==
    /\ opc = "cert"
    /\ \E response \in CertificateResponses, lat \in Latencies :
        LET o == net_get(response, JSON_CONTENT_TYPE)
            body == order_seen[Len(order_seen)]
        IN  /\ clock' = clock + lat
            /\ cert_resps' = Append(cert_resps, response)
            /\ opc' = "done"
            /\ oresult' =
                  IF o.kind # "return"
                    THEN Result(o.kind, NoOrderResource, <<>>)
                    ELSE Result("return",
                                [orderr EXCEPT !.body = body,
                                               !.fullchain_pem = response.text],
                                <<>>)
    /\ UNCHANGED <<v2call, orderr, deadline, deadline_arg, url_i, responses, authz_gets, posts,
                   order_gets, order_seen>>

\* the while loop ends because the deadline has come
FinalizeDeadline ==
    /\ opc = "order"
    /\ ~before_deadline(clock, deadline)
    /\ OrderRaise("TimeoutError")
    /\ UNCHANGED <<v2call, orderr, deadline, deadline_arg, clock, url_i, responses, authz_gets,
                   posts, order_gets, order_seen, cert_resps>>

OrderNext ==
    \/ PollAndFinalize /\ UNCHANGED <<netVars, pollVars, chainVars, facadeVars>>
    \/ PollAuthorizations /\ UNCHANGED <<netVars, pollVars, chainVars, facadeVars>>
    \/ AuthzGet /\ UNCHANGED <<netVars, pollVars, chainVars, facadeVars>>
    \/ AuthzDeadline /\ UNCHANGED <<netVars, pollVars, chainVars, facadeVars>>
    \/ AuthzEnd /\ UNCHANGED <<netVars, pollVars, chainVars, facadeVars>>
    \/ FinalizeOrder /\ UNCHANGED <<netVars, pollVars, chainVars, facadeVars>>
    \/ FinalizePost /\ UNCHANGED <<netVars, pollVars, chainVars, facadeVars>>
    \/ OrderPoll /\ UNCHANGED <<netVars, pollVars, chainVars, facadeVars>>
    \/ CertificateGet /\ UNCHANGED <<netVars, pollVars, chainVars, facadeVars>>
    \/ FinalizeDeadline /\ UNCHANGED <<netVars, pollVars, chainVars, facadeVars>>

\* a ClientV2 engine with a bound account, no call made yet
OrderInit == Init /\ engine = 2 /\ account = Account(AcctUrl1)

SpecOrder == OrderInit /\ [][OrderNext]_vars

-----------------------------------------------------------------------------
(* Properties of poll_authorizations and finalize_order *)

\* the authorization URLs of the order
AuthzUrls == orderr.body.authorizations

\* poll_authorizations ran to the end of its for loop
PolledToEnd ==
    /\ v2call = "poll_authorizations"
    /\ opc = "done"
    /\ oresult.kind \in {"TimeoutError", "ValidationError", "return"}

\* a non-valid authorization one of whose challenges reports an error
Failing(authzr) ==
    /\ authzr.body.status # STATUS_VALID
    /\ \E k \in DOMAIN authzr.body.challenges : authzr.body.challenges[k] # None

\* C15: an authorization returned for another identifier than the one
\* requested is never taken over: here, every response collected by v2
\* poll_authorizations is for the identifier of the order's authorization at
\* that URL.
C15_IdentifierBinding ==
    v2call = "poll_authorizations" =>
        \A k \in DOMAIN responses :
            responses[k].body.identifier = orderr.authorizations[k].body.identifier

\* the v1 paths do check: the latest-known record keeps the identifier of the
\* input authorization, and a poll answered for another identifier raises
\* UnexpectedUpdate
IdentifierBoundV1 ==
    \A a \in DOMAIN updated : updated[a].body.identifier = a.body.identifier

\* C18: with a deadline already passed when poll_authorizations is called on
\* an order with at least one authorization, the call raises TimeoutError and
\* sends no GET; no GET is ever sent at or after the deadline; and after the
\* for loop TimeoutError is raised exactly when fewer non-pending responses
\* than authorization URLs were collected.
C18_DeadlineTimeout ==
    v2call = "poll_authorizations" =>
        /\ \A i \in DOMAIN authz_gets : \A k \in DOMAIN authz_gets[i] :
              authz_gets[i][k] < deadline
        /\ (deadline < 0 /\ Len(AuthzUrls) >= 1) =>
              /\ \A i \in DOMAIN authz_gets : Len(authz_gets[i]) <= 1
              /\ opc = "done" => oresult.kind = "TimeoutError"
        /\ PolledToEnd =>
              (oresult.kind = "TimeoutError" <=> Len(responses) < Len(AuthzUrls))

\* two pending authorizations, the deadline already passed at the call
C18_Witness ==
    /\ v2call = "poll_authorizations"
    /\ opc = "done"
    /\ oresult.kind = "TimeoutError"
    /\ deadline < 0
    /\ Len(AuthzUrls) = 2
    /\ responses = <<>>

\* C19: when a non-pending response was collected for every authorization
\* and some non-valid one has a challenge with an error, the call raises
\* ValidationError carrying exactly the failing authorizations.
C19_ValidationError ==
    (/\ v2call = "poll_authorizations"
     /\ opc = "done"
     /\ Len(responses) = Len(AuthzUrls)
     /\ \E k \in DOMAIN responses : Failing(responses[k])) =>
        /\ oresult.kind = "ValidationError"
        /\ Range(oresult.failed) = {responses[k] : k \in {j \in DOMAIN responses :
                                                            Failing(responses[j])}}

\* one authorization valid though a challenge of it reports an error, the
\* other invalid with an erroring challenge: only the second is carried
C19_Witness ==
    /\ v2call = "poll_authorizations"
    /\ opc = "done"
    /\ oresult.kind = "ValidationError"
    /\ Len(responses) = 2
    /\ responses[1].body.status = STATUS_VALID
    /\ responses[1].body.challenges = <<"unauthorized">>
    /\ responses[2].body.status = STATUS_INVALID
    /\ oresult.failed = <<responses[2]>>

\* C20: finalize_order sends the finalize POST once and polls the order URL
\* at least a second apart; when the first polled order with a certificate
\* (and no error) is followed by a 200 answer to the GET of the certificate
\* URL, the call returns the order with fullchain_pem equal to that text; a
\* polled order with an error gives IssuanceError; TimeoutError comes only
\* with the deadline passed and neither seen.
C20_FinalizeOutcome ==
    (v2call = "finalize_order" /\ opc = "done") =>
        /\ Len(posts) = 1
        /\ \A k \in DOMAIN order_gets :
              order_gets[k] >= (IF k = 1 THEN posts[1] ELSE order_gets[k - 1]) + 1
        /\ \A k \in DOMAIN order_seen :
              (order_seen[k].error # None \/ order_seen[k].certificate # None)
                  => k = Len(order_seen)
        /\ (order_seen # <<>> /\ order_seen[Len(order_seen)].error # None) =>
              oresult.kind = "IssuanceError"
        /\ oresult.kind = "TimeoutError" =>
              /\ clock >= deadline
              /\ \A k \in DOMAIN order_seen :
                    order_seen[k].error = None /\ order_seen[k].certificate = None
        /\ Len(cert_resps) <= 1
        /\ (cert_resps # <<>> /\ cert_resps[1].status = 200) =>
              /\ oresult.kind = "return"
              /\ oresult.orderr.fullchain_pem = cert_resps[1].text

-----------------------------------------------------------------------------
(* Properties of poll_and_finalize and of the finalize deadline *)

\* every authorization of the order was collected with a non-pending status
\* and none of them fails validation
AllCollected ==
    /\ Len(responses) = Len(AuthzUrls)
    /\ \A k \in DOMAIN responses :
          responses[k].body.status # STATUS_PENDING /\ ~Failing(responses[k])

\* C21: in poll_and_finalize the finalize POST is sent only after every
\* authorization was observed non-pending and poll_authorizations returned
\* (no TimeoutError, no ValidationError); both phases run under one deadline,
\* the caller's or 90 seconds from the start of the call.
C21_FinalizeAfterAuthz ==
    v2call = "poll_and_finalize" =>
        /\ deadline = (IF deadline_arg.given THEN deadline_arg.at
                                             ELSE default_deadline_seconds)
        /\ (posts # <<>> \/ opc \in {"post", "order", "cert"}) =>
              AllCollected /\ orderr.authorizations = responses
        /\ Len(posts) <= 1
        /\ \A i \in DOMAIN authz_gets : \A k \in DOMAIN authz_gets[i] :
              authz_gets[i][k] < deadline
        /\ \A k \in DOMAIN order_gets : order_gets[k] - 1 < deadline

\* no deadline given, two authorizations collected, then the POST
C21_Witness ==
    /\ v2call = "poll_and_finalize"
    /\ ~deadline_arg.given
    /\ Len(responses) = 2
    /\ Len(posts) = 1
    /\ order_gets # <<>>

\* some collected authorization fails validation
SomeFailing == \E k \in DOMAIN responses : Failing(responses[k])

\* C29: with a non-pending response collected for every authorization,
\* poll_authorizations raises ValidationError exactly when some collected
\* non-valid authorization has a challenge with an error; otherwise it
\* returns the order with its authorizations replaced by the collected ones,
\* also when one of them is invalid or deactivated, and poll_and_finalize
\* goes on to the finalize POST.
C29_ValidationIff ==
    /\ (v2call = "poll_authorizations" /\ opc = "done"
        /\ Len(responses) = Len(AuthzUrls)) =>
          /\ oresult.kind = "ValidationError" <=> SomeFailing
          /\ ~SomeFailing =>
                /\ oresult.kind = "return"
                /\ oresult.orderr = [orderr EXCEPT !.authorizations = responses]
    /\ (v2call = "poll_and_finalize" /\ url_i > Len(AuthzUrls)
        /\ Len(responses) = Len(AuthzUrls) /\ opc # "authz") =>
          IF SomeFailing
            THEN opc = "done" /\ oresult.kind = "ValidationError" /\ posts = <<>>
            ELSE /\ orderr.authorizations = responses
                 /\ opc \in {"post", "order", "cert", "done"}
                 /\ opc # "post" => Len(posts) = 1

\* an invalid authorization none of whose challenges reports an error, and
\* the finalize POST sent all the same
C29_Witness ==
    /\ v2call = "poll_and_finalize"
    /\ Len(posts) = 1
    /\ \E k \in DOMAIN responses :
          /\ responses[k].body.status = STATUS_INVALID
          /\ responses[k].body.challenges = <<None>>

\* the finalize POST itself failed
PostFailed == oresult.kind \in {"messages.Error", "RequestException"} /\ order_gets = <<>>

\* C30 as stated: no GET of the order URL is sent at or after the deadline.
C30_Original ==
    v2call = "finalize_order" =>
        /\ deadline <= 0 =>
              /\ order_gets = <<>>
              /\ opc = "done" =>
                    Len(posts) = 1 /\ (oresult.kind = "TimeoutError" \/ PostFailed)
        /\ order_gets # <<>> => (posts # <<>> /\ order_gets[1] >= posts[1] + 1)
        /\ \A k \in DOMAIN order_gets : order_gets[k] < deadline

\* C30: with a deadline already passed finalize_order still sends the POST
\* and raises TimeoutError without any GET of the order URL; the first order
\* poll comes after the POST and a one-second wait; no one-second wait of the
\* polling loop begins at or after the deadline (the GET that follows it may
\* be sent at or after the deadline).
C30_NoWaitAfterDeadline ==
    v2call = "finalize_order" =>
        /\ deadline <= 0 =>
              /\ order_gets = <<>>
              /\ opc = "done" =>
                    Len(posts) = 1 /\ (oresult.kind = "TimeoutError" \/ PostFailed)
        /\ order_gets # <<>> => (posts # <<>> /\ order_gets[1] >= posts[1] + 1)
        /\ \A k \in DOMAIN order_gets : order_gets[k] - 1 < deadline

\* the deadline had passed at the call: one POST, no GET, TimeoutError
C30_Witness ==
    /\ v2call = "finalize_order"
    /\ opc = "done"
    /\ deadline <= 0
    /\ Len(posts) = 1
    /\ order_gets = <<>>
    /\ oresult.kind = "TimeoutError"

-----------------------------------------------------------------------------
(* Properties of the nonce pool across calls *)

(* C27: the nonce pool never holds more than one nonce: a post attempt      *)
(* takes one out (after a single pre-fetch when the pool is empty) and puts *)
(* at most one back, and get() adds none.                                   *)
C27_PoolAtMostOne ==
    /\ Cardinality(nonces) <= 1
    /\ (GetDone /\ Len(resps) > 0) => nonces \subseteq poolBefore
    /\ call.kind = "post" => Cardinality(HeadIdx) <= NumPosts + 1

\* a post on a pool of one: no pre-fetch, the nonce spent, a new one stored
C27_Witness ==
    /\ PostDone
    /\ poolBefore # {}
    /\ HeadIdx = {}
    /\ Cardinality(nonces) = 1
    /\ nonces # poolBefore

\* the response that ended post() was the answer to its signed POST
PostAnswered ==
    /\ PostDone
    /\ Len(resps) > 0 /\ Len(resps) = Len(reqs)
    /\ reqs[Len(reqs)].method = "POST"
    /\ Received(LastResp)

(* C28: the Replay-Nonce of the response to a signed POST is handled before *)
(* the response is validated: the nonce of an error response that makes     *)
(* post() raise is in the pool afterwards; an error response without        *)
(* Replay-Nonce makes post() raise MissingNonce, and a badNonce problem     *)
(* without Replay-Nonce is the last response of the call.                   *)
C28_NonceBeforeValidation ==
    /\ (PostAnswered /\ ~ok(LastResp.status) /\ HasFreshNonce(LastResp))
         => /\ outcome.kind \in {"ConflictError", "messages.Error", "ClientError"}
            /\ decode(LastResp.nonce).val \in nonces
    /\ (PostAnswered /\ ~ok(LastResp.status) /\ LastResp.nonce = NoHeader)
         => outcome.kind = "MissingNonce"
    /\ call.kind = "post" =>
         \A i \in PostIdx :
           (i <= Len(resps) /\ IsBadNonceProblem(resps[i]) /\ resps[i].nonce = NoHeader)
             => (pc = "idle" /\ i = Len(resps))

\* a 409 with a Replay-Nonce: ConflictError raised, its nonce kept for the
\* next post
C28_Witness ==
    /\ PostAnswered
    /\ LastResp.status = 409 /\ HasFreshNonce(LastResp)
    /\ outcome.kind = "ConflictError"
    /\ decode(LastResp.nonce).val \in nonces

-----------------------------------------------------------------------------
(* BackwardsCompatibleClientV2, the construction of the engines, and       *)
(* Client.request_issuance (ACME v1)                                       *)

\* default of the max_length argument of fetch_chain
fetch_chain_max_length == 10

\* names of the values the calls are made with: a transport supplied by the
\* caller, the one Client.__init__ creates, the account key, the
\* terms-of-service URL, the URL of the issued certificate and of its issuer
SuppliedNet == "net"
CreatedNet == "ClientNetwork(key, alg, verify_ssl)"
AccountKey == "key"
TosUrl == "terms-of-service"
LeafUrl == "cert/leaf"
ChainHeadUrl == "cert/A"

\* ClientBase.__init__
ClientBase_init(self, directory, net, acme_version) ==
    [self EXCEPT !.directory = directory, !.net = net, !.acme_version = acme_version]

\* Client.__init__(directory, key, net=net), directory a messages.Directory
Client_init(directory, key, net) ==
    LET self == [NoEngine EXCEPT !.cls = "Client", !.key = key,
                                 !.net = IF net = None THEN CreatedNet ELSE net]
    IN  ClientBase_init(self, directory, net, 1)

\* ClientV2.__init__(directory, net)
ClientV2_init(directory, net) ==
    ClientBase_init([NoEngine EXCEPT !.cls = "ClientV2"], directory, net, 2)

\* mutant: every server is taken for a v1 server
acme_version_from_directory_v1(directory) == 1

\* BackwardsCompatibleClientV2._acme_version_from_directory
acme_version_from_directory(directory) == IF directory.newNonce THEN 2 ELSE 1

\* BackwardsCompatibleClientV2.__init__(net, key, server), with the directory
\* the server answered
BackwardsCompatibleClientV2_init(net, key, directory) ==
    LET acme_version == acme_version_from_directory(directory)
    IN  [wrapped |-> TRUE,
         acme_version |-> acme_version,
         client |-> IF acme_version = 1
                      THEN Client_init(directory, key, net)
                      ELSE ClientV2_init(directory, net)]

\* a facade built on a supplied transport, or a v1 Client built directly with
\* or without one; the directory the server publishes is with or without
\* newNonce, with or without a terms-of-service URL in meta
FacadeInit ==
    /\ TransportInit
    /\ PollIdle
    /\ ChainIdle
    /\ OrderIdle
    /\ NoFacadeCall
    /\ \E d \in {[newNonce |-> n, terms_of_service |-> t] :
                    n \in BOOLEAN, t \in {None, TosUrl}} :
         \/ facade = BackwardsCompatibleClientV2_init(SuppliedNet, AccountKey, d)
         \/ /\ ~d.newNonce
            /\ \E net \in {None, SuppliedNet} :
                 facade = [wrapped |-> FALSE, acme_version |-> 0,
                           client |-> Client_init(d, AccountKey, net)]
    /\ engine = facade.client.acme_version

\* what happened during a call: an engine method entered, a signed POST sent,
\* the terms-of-service callback invoked
EngineCall(cls, what, arg) == [kind |-> "call", who |-> cls, what |-> what, arg |-> arg]
PostSent(url, arg) == [kind |-> "post", who |-> "net", what |-> url, arg |-> arg]
CallbackInvoked(tos) == [kind |-> "cb", who |-> "caller", what |-> "check_tos_cb", arg |-> tos]

FResult(kind, arg) == [kind |-> kind, arg |-> arg]

\* mutant: an error raised by the callback is swallowed
assess_tos_swallows(cb, tos) ==
    [events |-> IF cb # None THEN <<CallbackInvoked(tos)>> ELSE <<>>, raised |-> FALSE]

\* _assess_tos(tos) of new_account_and_tos: the callback, when there is one,
\* is invoked with tos, and what it raises leaves new_account_and_tos
assess_tos(cb, tos) ==
    [events |-> IF cb # None THEN <<CallbackInvoked(tos)>> ELSE <<>>,
     raised |-> cb = "raises"]

\* BackwardsCompatibleClientV2.new_account_and_tos(regr, check_tos_cb) on the
\* engine self, with Client.register, Client.agree_to_tos and
\* ClientV2.new_account; r1 answers the first POST, r2 the second
new_account_and_tos(self, acct, cb, r1, r2) ==
    IF self.acme_version = 1
      THEN LET o == net_post(r1, register.ct)
               e1 == <<EngineCall(self.cls, "register", None), PostSent(register.url, None)>>
               t == assess_tos(cb, r1.tos)
               u == net_post(r2, update_registration(1).ct)
           IN  IF o.kind # "return"
                 THEN [events |-> e1, result |-> FResult(o.kind, None), post |-> NoOutcome,
                       tos |-> None]
               ELSE IF r1.status # 201
                 THEN [events |-> e1, result |-> FResult("AssertionError", None),
                       post |-> NoOutcome, tos |-> None]
               ELSE IF r1.tos = None
                 THEN [events |-> e1, result |-> FResult("return", None), post |-> NoOutcome,
                       tos |-> None]
               ELSE IF t.raised
                 THEN [events |-> e1 \o t.events, result |-> FResult("TosError", None),
                       post |-> NoOutcome, tos |-> r1.tos]
               ELSE [events |-> e1 \o t.events
                                  \o <<EngineCall(self.cls, "agree_to_tos", r1.tos),
                                       PostSent(regr_uri(r1, None), r1.tos)>>,
                     result |-> FResult(u.kind, r1.tos), post |-> u, tos |-> r1.tos]
      ELSE LET tos == self.directory.terms_of_service
               t == assess_tos(cb, tos)
               e1 == IF tos # None THEN t.events ELSE <<>>
               agreed == IF tos # None THEN "terms_of_service_agreed" ELSE None
               j == wrap_in_jws(acct, 0, new_account.url, new_account.ver)
               o == net_post(r2, new_account.ct)
           IN  IF tos # None /\ t.raised
                 THEN [events |-> e1, result |-> FResult("TosError", None),
                       post |-> NoOutcome, tos |-> tos]
               ELSE IF j.err # None
                 THEN [events |-> e1 \o <<EngineCall(self.cls, "new_account", agreed)>>,
                       result |-> FResult(j.err, None), post |-> NoOutcome, tos |-> tos]
               ELSE [events |-> e1 \o <<EngineCall(self.cls, "new_account", agreed),
                                        PostSent(new_account.url, agreed)>>,
                     result |-> FResult(o.kind, agreed), post |-> o, tos |-> tos]

\* BackwardsCompatibleClientV2.new_account_and_tos.  check_tos_cb is None, a
\* callback that returns, or one that raises; the new-reg POST is answered
\* Created with or without a terms-of-service link, by another success
\* status, by a problem, or not at all; the second POST by success or problem
NewAccountAndTos ==
    /\ facade.wrapped
    /\ fpc = "idle"
    /\ Len(dispatched) < MaxCalls
    /\ dispatched' = Append(dispatched, facade.client.cls)
    /\ fcall' = "new_account_and_tos"
    /\ \E cb \in {None, "returns", "raises"},
          r1 \in {[status |-> st, nonce |-> NoHeader, body |-> "json",
                   ct |-> JSON_CONTENT_TYPE, location |-> AcctUrl1, tos |-> t] :
                     st \in {201, 200, 400, 0}, t \in {None, TosUrl}},
          r2 \in {Response(st, NoHeader, "json", JSON_CONTENT_TYPE, AcctUrl1) :
                     st \in {200, 400}} :
         LET r == new_account_and_tos(facade.client, account, cb, r1, r2)
         IN  /\ events' = r.events
             /\ fresult' = r.result
             /\ tos_cb' = cb
             /\ regr_tos' = r.tos
             /\ account' = IF facade.acme_version = 1
                             THEN bind(update_registration(1), r.post, account)
                             ELSE bind(new_account, r.post, account)
    /\ fpc' = "idle"
    /\ iresponse' = NoIssuance
    /\ certr' = NoCertr
    /\ fnow' = 0
    /\ fdeadline' = 0
    /\ tries' = <<>>
    /\ fauthzrs' = <<>>
    /\ fullchain_pem' = <<>>
    /\ UNCHANGED <<engine, nonces, pc, call, attempt, jws, reqs, resps, attempts, posted,
                   outcome, poolBefore, acctBefore, registered, srvNonce, ncalls>>
    /\ UNCHANGED <<facade, pollVars, chainVars, orderVars>>

\* BackwardsCompatibleClientV2.new_order: a new-authz POST per domain of the
\* CSR on v1 (the k-th answered by a problem when k > 0), ClientV2.new_order
\* on v2; the CSR names one domain or two
FacadeNewOrder ==
    /\ facade.wrapped
    /\ fpc = "idle"
    /\ Len(dispatched) < MaxCalls
    /\ dispatched' = Append(dispatched, facade.client.cls)
    /\ UNCHANGED facade
    /\ fcall' = "new_order"
    /\ \E dnsNames \in {<<"a.example">>, <<"a.example", "b.example">>}, k \in 0..1 :
         IF facade.acme_version = 1
           THEN LET n == IF k > 0 THEN k ELSE Len(dnsNames)
                    step(i) == <<EngineCall(facade.client.cls, "request_domain_challenges",
                                            dnsNames[i]),
                                 PostSent(request_challenges.url, dnsNames[i])>>
                IN  /\ events' = IF n = 1 THEN step(1) ELSE step(1) \o step(2)
                    /\ fresult' = FResult(IF k > 0 THEN "messages.Error" ELSE "return", None)
           ELSE LET j == wrap_in_jws(account, 0, new_order.url, new_order.ver)
                IN  IF j.err # None
                      THEN /\ events' = <<EngineCall(facade.client.cls, "new_order", None)>>
                           /\ fresult' = FResult(j.err, None)
                      ELSE /\ events' = <<EngineCall(facade.client.cls, "new_order", None),
                                          PostSent(new_order.url, None)>>
                           /\ fresult' = FResult(IF k > 0 THEN "messages.Error" ELSE "return",
                                                 None)
    /\ fpc' = "idle"
    /\ iresponse' = NoIssuance
    /\ certr' = NoCertr
    /\ fnow' = 0
    /\ fdeadline' = 0
    /\ tries' = <<>>
    /\ fauthzrs' = <<>>
    /\ fullchain_pem' = <<>>
    /\ tos_cb' = None
    /\ regr_tos' = None
    /\ UNCHANGED <<netVars, pollVars, chainVars, orderVars>>

\* messages.CertificateResource
CertificateResource(uri, authzs, chain_head, body) ==
    [uri |-> uri, authzrs |-> authzs, cert_chain_uri |-> chain_head, body |-> body]

\* the responses to the new-cert POST: Created or a problem or no answer, the
\* Content-Type application/pkix-cert or another, with or without Location
\* and "up" link, the content a DER certificate or not
IssuanceResponses ==
    {[CertResponse(201, "nonjson", link, LeafUrl, der) EXCEPT !.ct = ct, !.location = loc] :
        link \in {None, ChainHeadUrl}, der \in BOOLEAN,
        ct \in {DER_CONTENT_TYPE, JSON_CONTENT_TYPE}, loc \in {None, LeafUrl}}
    \cup {CertResponse(400, "json", None, None, FALSE),
          CertResponse(0, "nonjson", None, None, FALSE)}

\* mutant: a response without Location is accepted
Client_request_issuance_no_location(self, authzs, response) ==
    LET o == net_post(response, request_issuance.ct)
    IN  IF authzs = <<>>
          THEN [err |-> "AssertionError", posted |-> FALSE, certr |-> NoCertr]
        ELSE IF self.net = None
          THEN [err |-> "AttributeError", posted |-> FALSE, certr |-> NoCertr]
        ELSE IF o.kind # "return"
          THEN [err |-> o.kind, posted |-> TRUE, certr |-> NoCertr]
        ELSE IF ~response.der_ok
          THEN [err |-> "crypto.Error", posted |-> TRUE, certr |-> NoCertr]
        ELSE [err |-> None, posted |-> TRUE,
              certr |-> CertificateResource(response.location, authzs, response.up_link,
                                            response.cert)]

\* Client.request_issuance(csr, authzrs) on the engine self, with the response
\* to its POST: the CertificateResource returned, or the exception raised
Client_request_issuance(self, authzs, response) ==
    LET o == net_post(response, request_issuance.ct)
    IN  IF authzs = <<>>
          THEN [err |-> "AssertionError", posted |-> FALSE, certr |-> NoCertr]
        ELSE IF self.net = None
          THEN [err |-> "AttributeError", posted |-> FALSE, certr |-> NoCertr]
        ELSE IF o.kind # "return"
          THEN [err |-> o.kind, posted |-> TRUE, certr |-> NoCertr]
        ELSE IF response.location = None
          THEN [err |-> "ClientError", posted |-> TRUE, certr |-> NoCertr]
        ELSE IF ~response.der_ok
          THEN [err |-> "crypto.Error", posted |-> TRUE, certr |-> NoCertr]
        ELSE [err |-> None, posted |-> TRUE,
              certr |-> CertificateResource(response.location, authzs, response.up_link,
                                            response.cert)]

\* request_issuance runs: what it leaves behind
Issuance(authzs, response, lat, returned) ==
    LET r == Client_request_issuance(facade.client, authzs, response)
    IN  /\ events' = <<EngineCall(facade.client.cls, "request_issuance", None)>>
                      \o (IF r.posted THEN <<PostSent(request_issuance.url, None)>> ELSE <<>>)
        /\ fauthzrs' = authzs
        /\ iresponse' = IF r.posted THEN response ELSE NoIssuance
        /\ fnow' = IF r.posted THEN lat ELSE 0
        /\ certr' = r.certr
        /\ fresult' = IF r.err # None THEN FResult(r.err, None) ELSE returned

\* Client.request_issuance called on a Client that was built directly
RequestIssuanceCall ==
    /\ ~facade.wrapped
    /\ fpc = "idle"
    /\ Len(dispatched) < MaxCalls
    /\ dispatched' = Append(dispatched, facade.client.cls)
    /\ UNCHANGED facade
    /\ fcall' = "request_issuance"
    /\ \E authzs \in {<<>>, <<Authzr1>>}, response \in IssuanceResponses, lat \in Latencies :
         Issuance(authzs, response, lat, FResult("return", None))
    /\ fpc' = "idle"
    /\ fdeadline' = 0
    /\ tries' = <<>>
    /\ fullchain_pem' = <<>>
    /\ tos_cb' = None
    /\ regr_tos' = None
    /\ UNCHANGED <<netVars, pollVars, chainVars, orderVars>>

\* BackwardsCompatibleClientV2.finalize_order(orderr, deadline): on v1 up to
\* the while loop, on v2 the whole delegation to ClientV2.finalize_order
FacadeFinalizeOrder ==
    /\ facade.wrapped
    /\ fpc = "idle"
    /\ Len(dispatched) < MaxCalls
    /\ dispatched' = Append(dispatched, facade.client.cls)
    /\ UNCHANGED facade
    /\ fcall' = "finalize_order"
    /\ \E d \in Deadlines(0) :
         /\ fdeadline' = d
         /\ IF facade.acme_version = 1
              THEN /\ \E authzs \in {<<>>, <<Authzr1>>}, response \in IssuanceResponses,
                          lat \in Latencies :
                        Issuance(authzs, response, lat, NoFResult)
                   /\ fpc' = IF certr' # NoCertr THEN "loop" ELSE "idle"
              ELSE /\ events' = <<EngineCall(facade.client.cls, "finalize_order", None)>>
                   /\ \E o \in {"return", "TimeoutError", "IssuanceError", "messages.Error"} :
                        fresult' = FResult(o, None)
                   /\ fauthzrs' = <<>>
                   /\ iresponse' = NoIssuance
                   /\ certr' = NoCertr
                   /\ fnow' = 0
                   /\ fpc' = "idle"
    /\ tries' = <<>>
    /\ fullchain_pem' = <<>>
    /\ tos_cb' = None
    /\ regr_tos' = None
    /\ UNCHANGED <<netVars, pollVars, chainVars, orderVars>>

\* the while test holds: self.client.fetch_chain(certr) is called, with the
\* default max_length; the server's up links are any
FacadeFetchChain ==
    /\ fpc = "loop"
    /\ before_deadline(fnow, fdeadline)
    /\ fpc' = "fetch"
    /\ tries' = Append(tries, [at |-> fnow, ended |-> fnow, result |-> None])
    /\ events' = Append(events, EngineCall(facade.client.cls, "fetch_chain", None))
    /\ cert_chain_uri' = certr.cert_chain_uri
    /\ max_length' = fetch_chain_max_length
    /\ up' \in {[u \in CertUrls |-> t] : t \in {None, ChainHeadUrl}}
    /\ chain' = <<>>
    /\ chain_uri' = cert_chain_uri'
    /\ cpc' = "loop"
    /\ cresult' = None
    /\ cgets' = 0
    /\ UNCHANGED <<facade, fcall, dispatched, fresult, iresponse, certr, fnow, fdeadline,
                   fauthzrs, fullchain_pem, tos_cb, regr_tos>>
    /\ UNCHANGED <<netVars, pollVars, orderVars>>

\* mutant: every exception of fetch_chain is waited out
is_errors_Error_any(kind) == TRUE

\* except errors.Error: the exceptions of fetch_chain that the clause catches
\* (errors.ClientError, errors.ConflictError and messages.Error derive from
\* errors.Error; requests' RequestException and OpenSSL's crypto.Error do not)
is_errors_Error(kind) ==
    kind \in {"errors.Error", "ClientError", "ConflictError", "messages.Error"}

\* fetch_chain came back: break and return the order with fullchain_pem, or
\* sleep one second, or let the exception through
FacadeChainDone ==
    /\ fpc = "fetch"
    /\ cpc = "done"
    /\ cpc' = "idle"
    /\ \E lat \in Latencies :
         /\ tries' = [tries EXCEPT ![Len(tries)] =
                         [at |-> @.at, ended |-> fnow + lat, result |-> cresult]]
         /\ IF cresult = "return"
              THEN /\ fullchain_pem' = <<[pem |-> certr.body]>>
                                          \o [i \in 1..Len(chain) |-> [pem |-> chain[i]]]
                   /\ fresult' = FResult("return", None)
                   /\ fpc' = "idle"
                   /\ fnow' = fnow + lat
                   /\ UNCHANGED <<cert_chain_uri, max_length, up, chain, chain_uri, cresult,
                                  cgets>>
              ELSE /\ IF is_errors_Error(cresult)
                        THEN /\ fnow' = fnow + lat + 1
                             /\ fpc' = "loop"
                             /\ UNCHANGED fresult
                        ELSE /\ fnow' = fnow + lat
                             /\ fpc' = "idle"
                             /\ fresult' = FResult(cresult, None)
                   /\ cert_chain_uri' = None
                   /\ max_length' = 0
                   /\ up' = <<>>
                   /\ chain' = <<>>
                   /\ chain_uri' = None
                   /\ cresult' = None
                   /\ cgets' = 0
                   /\ UNCHANGED fullchain_pem
    /\ UNCHANGED <<facade, fcall, events, dispatched, iresponse, certr, fdeadline, fauthzrs,
                   tos_cb, regr_tos>>
    /\ UNCHANGED <<netVars, pollVars, orderVars>>

\* the while test fails with chain still None
FacadeChainTimeout ==
    /\ fpc = "loop"
    /\ ~before_deadline(fnow, fdeadline)
    /\ fpc' = "idle"
    /\ fresult' = FResult("errors.Error", "Failed to fetch chain")
    /\ UNCHANGED <<facade, fcall, events, dispatched, iresponse, certr, fnow, fdeadline,
                   tries, fauthzrs, fullchain_pem, tos_cb, regr_tos>>
    /\ UNCHANGED <<netVars, pollVars, chainVars, orderVars>>

FacadeNext ==
    \/ NewAccountAndTos
    \/ FacadeNewOrder
    \/ FacadeFinalizeOrder
    \/ RequestIssuanceCall
    \/ FacadeFetchChain
    \/ FetchCert /\ UNCHANGED <<netVars, pollVars, orderVars, facadeVars>>
    \/ FetchChainEnd /\ UNCHANGED <<netVars, pollVars, orderVars, facadeVars>>
    \/ FacadeChainDone
    \/ FacadeChainTimeout

SpecFacade == FacadeInit /\ [][FacadeNext]_vars

-----------------------------------------------------------------------------
(* Properties of the facade, of the construction of a Client and of        *)
(* request_issuance                                                        *)

\* the methods of each engine that the facade calls
EngineMethods(cls) ==
    IF cls = "ClientV2"
      THEN {"new_account", "new_order", "finalize_order"}
      ELSE {"register", "agree_to_tos", "request_domain_challenges", "request_issuance",
            "fetch_chain"}

\* positions in events of the engine calls, of the POSTs to url, of the
\* invocations of the terms-of-service callback
CallIdx == {i \in 1..Len(events) : events[i].kind = "call"}
PostsTo(url) == {i \in 1..Len(events) : events[i].kind = "post" /\ events[i].what = url}
CbIdx == {i \in 1..Len(events) : events[i].kind = "cb"}

(* C22: the facade's acme_version is 2 exactly when the directory it       *)
(* fetched has newNonce, and 1 otherwise; its one engine is a ClientV2 for *)
(* 2 and a Client for 1; every call made through the facade is served by   *)
(* methods of that engine.                                                 *)
C22_OneEngine ==
    facade.wrapped =>
      /\ facade.acme_version = (IF facade.client.directory.newNonce THEN 2 ELSE 1)
      /\ facade.client.cls = (IF facade.acme_version = 2 THEN "ClientV2" ELSE "Client")
      /\ facade.client.acme_version = facade.acme_version
      /\ \A i \in 1..Len(dispatched) : dispatched[i] = facade.client.cls
      /\ \A i \in CallIdx :
            /\ events[i].who = facade.client.cls
            /\ events[i].what \in EngineMethods(facade.client.cls)

\* a v2 facade after two calls, the second a finalize_order served by ClientV2
C22_Witness ==
    /\ facade.wrapped
    /\ facade.client.directory.newNonce
    /\ dispatched = <<"ClientV2", "ClientV2">>
    /\ fcall = "finalize_order" /\ fpc = "idle"
    /\ CallIdx # {}

\* new_account_and_tos has run on a facade of protocol version v
TosDone(v) ==
    /\ facade.wrapped
    /\ facade.acme_version = v
    /\ fcall = "new_account_and_tos"
    /\ fpc = "idle"

(* C23: in new_account_and_tos on v1 the new-reg POST comes first, the      *)
(* callback is invoked with the terms URL of the registration response, and *)
(* the agreement POST follows only a callback that returned (without terms  *)
(* URL there is neither callback nor agreement); on v2 with a terms URL in  *)
(* the directory meta the callback is invoked with it before the newAccount *)
(* POST, whose body has terms_of_service_agreed set, and a callback that    *)
(* raises leaves no newAccount POST.                                        *)
C23_TosOrdering ==
    /\ TosDone(1) =>
         /\ \A i \in CbIdx \cup PostsTo(AcctUrl1) :
               \E j \in PostsTo(register.url) : j < i
         /\ \A i \in CbIdx : regr_tos # None /\ events[i].arg = regr_tos
         /\ \A i \in PostsTo(AcctUrl1) :
               /\ regr_tos # None /\ events[i].arg = regr_tos
               /\ tos_cb # "raises"
               /\ tos_cb # None => \E j \in CbIdx : j < i
         /\ (regr_tos # None /\ tos_cb # None) => CbIdx # {}
         /\ (regr_tos # None /\ tos_cb # "raises") => PostsTo(AcctUrl1) # {}
         /\ regr_tos = None => (CbIdx = {} /\ PostsTo(AcctUrl1) = {})
    /\ (TosDone(2) /\ facade.client.directory.terms_of_service # None) =>
         /\ tos_cb # None => CbIdx # {}
         /\ \A i \in CbIdx : events[i].arg = facade.client.directory.terms_of_service
         /\ \A i \in PostsTo(new_account.url) :
               /\ events[i].arg = "terms_of_service_agreed"
               /\ tos_cb # "raises"
               /\ tos_cb # None => \E j \in CbIdx : j < i

\* v1: registered, the callback returned, the agreement was sent and accepted
C23_Witness ==
    /\ TosDone(1)
    /\ tos_cb = "returns"
    /\ CbIdx # {} /\ PostsTo(AcctUrl1) # {}
    /\ fresult.kind = "return"

\* finalize_order runs or has run on a v1 facade
FinalizeV1 == facade.wrapped /\ facade.acme_version = 1 /\ fcall = "finalize_order"

\* the exceptions that derive from errors.Error
AcmeErrors == {"errors.Error", "ClientError", "ConflictError", "messages.Error"}

(* C24 as stated: after request_issuance, finalize_order on v1 ends only    *)
(* with a fetch_chain attempt that succeeded or with the deadline passed.   *)
C24_Original ==
    (FinalizeV1 /\ fpc = "idle" /\ certr # NoCertr)
      => \/ fresult.kind = "return"
         \/ ~before_deadline(fnow, fdeadline)

(* C24 amended: finalize_order on v1 calls request_issuance once with the   *)
(* order's authorizations; it starts fetch_chain attempts only before the  *)
(* deadline, and starts the next one one second after an attempt that      *)
(* failed with an errors.Error; it returns leaf + chain after a successful *)
(* attempt, raises errors.Error when the deadline has passed without one,  *)
(* and an attempt that raises anything else ends it at once with that      *)
(* exception.                                                              *)
C24_FinalizeV1 ==
    FinalizeV1 =>
      /\ Cardinality({i \in CallIdx : events[i].what = "request_issuance"}) = 1
      /\ certr # NoCertr => certr.authzrs = fauthzrs
      /\ \A i \in 1..Len(tries) : tries[i].at < fdeadline
      /\ \A i \in 1..(Len(tries) - 1) :
            /\ tries[i].result \in AcmeErrors
            /\ tries[i + 1].at = tries[i].ended + 1
      /\ (fpc = "idle" /\ certr # NoCertr) =>
            \/ /\ fresult.kind = "return"
               /\ tries[Len(tries)].result = "return"
               /\ fullchain_pem = <<[pem |-> certr.body]>>
                                     \o [i \in 1..Len(chain) |-> [pem |-> chain[i]]]
            \/ /\ fresult.kind = "errors.Error"
               /\ fnow >= fdeadline
               /\ \A i \in 1..Len(tries) : tries[i].result \in AcmeErrors
            \/ /\ fresult.kind \notin AcmeErrors \cup {"return"}
               /\ tries # <<>>
               /\ tries[Len(tries)].result = fresult.kind
               /\ fnow = tries[Len(tries)].ended

\* a first attempt failed, one second was waited, the second attempt brought
\* a chain of one certificate
C24_Witness ==
    /\ FinalizeV1 /\ fpc = "idle"
    /\ fresult.kind = "return"
    /\ Len(tries) = 2
    /\ Len(fullchain_pem) = 2

\* request_issuance sent its POST / returned a CertificateResource
IssuancePosted == PostsTo(request_issuance.url) # {}
IssuanceReturned == certr # NoCertr

(* C25 as stated: request_issuance returns only for a response with        *)
(* Content-Type application/pkix-cert and a Location header.               *)
C25_Original ==
    IssuanceReturned
      => (iresponse.ct = DER_CONTENT_TYPE /\ iresponse.location # None)

(* C25 amended: request_issuance returns exactly for an ok response with a  *)
(* Location header whose content loads as a DER certificate, whatever the  *)
(* Content-Type; without Location it raises ClientError; the resource      *)
(* returned has the Location as uri and the up link (or None) as           *)
(* cert_chain_uri.                                                         *)
C25_IssuanceRequirements ==
    /\ IssuanceReturned =>
         /\ IssuancePosted
         /\ ok(iresponse.status)
         /\ iresponse.location # None /\ certr.uri = iresponse.location
         /\ iresponse.der_ok /\ certr.body = iresponse.cert
         /\ certr.cert_chain_uri = iresponse.up_link
    /\ (IssuancePosted /\ Received(iresponse) /\ ok(iresponse.status)) =>
         /\ iresponse.location = None => (~IssuanceReturned /\ fresult.kind = "ClientError")
         /\ (iresponse.location # None /\ iresponse.der_ok) => IssuanceReturned

\* issuance from a response that is not application/pkix-cert and has no up
\* link
C25_Witness ==
    /\ IssuanceReturned
    /\ iresponse.ct # DER_CONTENT_TYPE
    /\ iresponse.up_link = None /\ certr.cert_chain_uri = None

(* C26: a Client built without a net argument has a ClientNetwork made from *)
(* key, alg and verify_ssl as its net, and no later operation finds it     *)
(* missing.                                                                *)
C26_NetInitialized ==
    (~facade.wrapped /\ facade.client.cls = "Client") =>
      /\ facade.client.net \in {SuppliedNet, CreatedNet}
      /\ fresult.kind # "AttributeError"

====
